---- MODULE Spec2Model ----
(***************************************************************************)
(* A model of the ExpressionMatrix2 entity store (genes, cells, per-cell   *)
(* meta data, per-cell sparse expression counts) and of its named gene-set *)
(* and cell-set algebra, translated from src/src/ExpressionMatrix.cpp.     *)
(*                                                                         *)
(* Ids (StringId, GeneId, CellId) are 0-based as in the code; a table or   *)
(* vector is a sequence, so id i lives at index i+1.  Expression counts    *)
(* are small integers, on which the code's float arithmetic is exact.      *)
(***************************************************************************)
EXTENDS Integers, Sequences, FiniteSets, TLC

VARIABLES
    geneNames,                    \* StringTable of gene names
    cells,                        \* Vector<Cell>: [sum1, sum2] per cell
    cellNames,                    \* StringTable of cell names
    cellMetaData,                 \* VectorOfLists of <<nameId, valueId>>
    cellMetaDataNames,            \* StringTable
    cellMetaDataValues,           \* StringTable
    cellMetaDataNamesUsageCount,  \* Vector<CellId>
    cellExpressionCounts,         \* VectorOfVectors of <<geneId, count>>
    cellSets,                     \* name -> sequence of CellId
    geneSets,                     \* name -> sequence of GeneId
    graphs,                       \* name -> GraphInformation of a cell similarity graph
    last,                         \* the last call made: its inputs' digest and its outcome
    calls,                        \* the number of calls made so far
    files,                        \* file name -> the content of the file
    vector,                       \* a MemoryMapped::Vector: isOpen, isOpenWithWriteAccess, fileName
    vectorOfVectors,              \* a MemoryMapped::VectorOfVectors: its count vector, its build so far
    signatures,                   \* vector<BitSet>: the words of each BitSet
    constructed                   \* whether the ExpressionMatrix object exists

vars == <<geneNames, cells, cellNames, cellMetaData, cellMetaDataNames,
          cellMetaDataValues, cellMetaDataNamesUsageCount, cellExpressionCounts,
          cellSets, geneSets, graphs, last, calls, files, vector, vectorOfVectors, signatures, constructed>>

(***************************************************************************)
(* Bounds of the model.                                                    *)
(***************************************************************************)
MaxCalls == 4         \* calls in a run of Spec
MaxMetaCalls == 4     \* calls in a run of SpecMeta
MaxCount == 2         \* the largest expression count of an input
MaxSetCalls == 3      \* calls in a run of SpecSets
MaxSimilarityCells == 3   \* cells stored in a run of SpecSimilarity

(***************************************************************************)
(* The strings and lists the calls are made with.                          *)
(***************************************************************************)
CellNameStrings == {"a", "b"}
GeneNameStrings == {"g0", "g1"}
MetaNameStrings == {"CellName", "k", "j"}
MetaValueStrings == {"x", "y"}
CellNamePairs == {"CellName"} \X CellNameStrings
\* A negative count, a zero count and a positive count.
Counts == {-1, 0, MaxCount}

SeqsUpTo(S, n) == UNION {[1..m -> S] : m \in 0..n}

(***************************************************************************)
(* MemoryMapped::StringTable: name -> dense id, ids in insertion order.    *)
(***************************************************************************)
invalidStringId == -1

\* operator(): the id of s, or invalidStringId.
Lookup(table, s) ==
    IF \E i \in 1..Len(table) : table[i] = s
    THEN (CHOOSE i \in 1..Len(table) : table[i] = s) - 1
    ELSE invalidStringId

\* operator[]: the table after s is looked up or inserted.
Intern(table, s) ==
    IF Lookup(table, s) # invalidStringId THEN table ELSE Append(table, s)

(***************************************************************************)
(* The store as one record, so that the operations are functions on it.    *)
(***************************************************************************)
Store ==
    [geneNames |-> geneNames, cells |-> cells, cellNames |-> cellNames,
     cellMetaData |-> cellMetaData, cellMetaDataNames |-> cellMetaDataNames,
     cellMetaDataValues |-> cellMetaDataValues,
     cellMetaDataNamesUsageCount |-> cellMetaDataNamesUsageCount,
     cellExpressionCounts |-> cellExpressionCounts,
     cellSets |-> cellSets, geneSets |-> geneSets, graphs |-> graphs]

SetStore(S) ==
    /\ geneNames' = S.geneNames
    /\ cells' = S.cells
    /\ cellNames' = S.cellNames
    /\ cellMetaData' = S.cellMetaData
    /\ cellMetaDataNames' = S.cellMetaDataNames
    /\ cellMetaDataValues' = S.cellMetaDataValues
    /\ cellMetaDataNamesUsageCount' = S.cellMetaDataNamesUsageCount
    /\ cellExpressionCounts' = S.cellExpressionCounts
    /\ cellSets' = S.cellSets
    /\ geneSets' = S.geneSets
    /\ graphs' = S.graphs

\* The store a new ExpressionMatrix is constructed with.
NewStore ==
    [geneNames |-> <<>>, cells |-> <<>>, cellNames |-> <<>>,
     cellMetaData |-> <<>>, cellMetaDataNames |-> <<>>,
     cellMetaDataValues |-> <<>>, cellMetaDataNamesUsageCount |-> <<>>,
     cellExpressionCounts |-> <<>>,
     cellSets |-> [n \in {"AllCells"} |-> <<>>],
     geneSets |-> [n \in {"AllGenes"} |-> <<>>],
     graphs |-> <<>>]

geneCount(S) == Len(S.geneNames)
cellCount(S) == Len(S.cellMetaData)

\* f with key k set to v, whether or not k is in its domain.
Put(f, k, v) == [x \in DOMAIN f \cup {k} |-> IF x = k THEN v ELSE f[x]]

(***************************************************************************)
(* GeneSet (its implementation is not among the sources): a vector of      *)
(* global gene ids; addGene appends, sort orders it (SortSeq of TLC).      *)
(***************************************************************************)
IntLess(a, b) == a < b
GeneSetAddGene(set, geneId) == Append(set, geneId)
GeneSetSort(set) == SortSeq(set, IntLess)

(***************************************************************************)
(* ExpressionMatrix::addGene                                               *)
(***************************************************************************)
\* A variant of addGene that skips the lookup and always registers the name.
addGeneWithoutLookup(S, geneName) ==
    [store |-> [S EXCEPT !.geneNames = Append(@, geneName),
                         !.geneSets = Put(@, "AllGenes",
                              GeneSetAddGene(@["AllGenes"], Len(S.geneNames)))],
     ret |-> TRUE]

addGene(S, geneName) ==
    IF Lookup(S.geneNames, geneName) = invalidStringId
    THEN [store |-> [S EXCEPT !.geneNames = Append(@, geneName),
                              !.geneSets = Put(@, "AllGenes",
                                   GeneSetAddGene(@["AllGenes"], Len(S.geneNames)))],
          ret |-> TRUE]
    ELSE [store |-> S, ret |-> FALSE]

(***************************************************************************)
(* ExpressionMatrix::incrementCellMetaDataNameUsageCount.  A failed        *)
(* CZI_ASSERT throws: err is set and the vector is as it was.              *)
(***************************************************************************)
incrementCellMetaDataNameUsageCount(S, nameId) ==
    LET u == S.cellMetaDataNamesUsageCount IN
    IF Len(u) <= nameId
    THEN IF Len(u) = nameId
         THEN [store |-> [S EXCEPT !.cellMetaDataNamesUsageCount = Append(u, 1)],
               err |-> ""]
         ELSE [store |-> S, err |-> "AssertionFailed"]
    ELSE [store |-> [S EXCEPT !.cellMetaDataNamesUsageCount[nameId + 1] = @ + 1],
          err |-> ""]

\* VectorOfLists::push_back(pair): append to the last list.
AppendToLast(vv, x) == [vv EXCEPT ![Len(vv)] = Append(@, x)]

(***************************************************************************)
(* addCell, "Store the cell meta data": the loop over metaData from its    *)
(* i-th pair on. A throw leaves what was stored so far.                    *)
(***************************************************************************)
RECURSIVE StoreCellMetaData(_, _, _)
StoreCellMetaData(S, metaData, i) ==
    IF i > Len(metaData) THEN [store |-> S, err |-> ""]
    ELSE
      LET p == metaData[i]
          S1 == [S EXCEPT !.cellMetaDataNames = Intern(@, p[1])]
          nameId == Lookup(S1.cellMetaDataNames, p[1])
          r == incrementCellMetaDataNameUsageCount(S1, nameId)
          S2 == [r.store EXCEPT !.cellMetaDataValues = Intern(@, p[2])]
          valueId == Lookup(S2.cellMetaDataValues, p[2])
          S3 == [S2 EXCEPT !.cellMetaData = AppendToLast(@, <<nameId, valueId>>)]
      IN IF r.err # "" THEN r ELSE StoreCellMetaData(S3, metaData, i + 1)

(***************************************************************************)
(* addCell, "Store the expression counts": the loop over expressionCounts  *)
(* from its i-th pair on; cell is the Cell record being summed.            *)
(***************************************************************************)
RECURSIVE StoreExpressionCounts(_, _, _, _)
StoreExpressionCounts(S, cell, expressionCounts, i) ==
    IF i > Len(expressionCounts) THEN [store |-> S, cell |-> cell, err |-> ""]
    ELSE
      LET p == expressionCounts[i]
          S1 == addGene(S, p[1]).store
          geneId == Lookup(S1.geneNames, p[1])
          value == p[2]
      IN IF value < 0
         THEN [store |-> S1, cell |-> cell, err |-> "NegativeCount"]
         ELSE IF value = 0
         THEN StoreExpressionCounts(S1, cell, expressionCounts, i + 1)
         ELSE StoreExpressionCounts(
                [S1 EXCEPT !.cellExpressionCounts = AppendToLast(@, <<geneId, value>>)],
                [sum1 |-> cell.sum1 + value, sum2 |-> cell.sum2 + value * value],
                expressionCounts, i + 1)

\* operator< of pair<GeneId, float>.
PairLess(a, b) == a[1] < b[1] \/ (a[1] = b[1] /\ a[2] < b[2])

\* "Verify that all the gene ids ... are distinct."
HasAdjacentDuplicate(row) == \E i \in 2..Len(row) : row[i - 1][1] = row[i][1]

\* The first index of a "CellName" entry, 0 if there is none.
CellNameIndex(metaData) ==
    IF \E i \in 1..Len(metaData) : metaData[i][1] = "CellName"
    THEN CHOOSE i \in 1..Len(metaData) :
            /\ metaData[i][1] = "CellName"
            /\ \A j \in 1..(i - 1) : metaData[j][1] # "CellName"
    ELSE 0

\* swap(p, metaData.front())
SwapToFront(metaData, i) ==
    [j \in 1..Len(metaData) |->
        IF j = 1 THEN metaData[i] ELSE IF j = i THEN metaData[1] ELSE metaData[j]]

\* The sanity checks that end addCell.
AddCellSanityChecks(S) ==
    /\ Len(S.cellNames) = Len(S.cells)
    /\ Len(S.cellMetaData) = Len(S.cells)
    /\ Len(S.cellExpressionCounts) = Len(S.cells)
    /\ Len(S.cellSets["AllCells"]) = Len(S.cells)

\* What addCell returns: the StringId of the cell name.
\* A variant of the return statement that returns the cell count after the call.
AddCellReturnCellCount(S, cellNameStringId) == Len(S.cells)

AddCellReturn(S, cellNameStringId) == cellNameStringId

(***************************************************************************)
(* ExpressionMatrix::addCell(metaData, expressionCounts).                  *)
(* result: "ok", or the error thrown; store: the store the call leaves.    *)
(***************************************************************************)
addCell(S, metaDataIn, expressionCounts) ==
    LET i == CellNameIndex(metaDataIn) IN
    IF i = 0 THEN [store |-> S, result |-> "MissingCellName", ret |-> invalidStringId]
    ELSE
      LET metaData == SwapToFront(metaDataIn, i)
          cellName == metaData[1][2]
      IN
      IF Lookup(S.cellNames, cellName) # invalidStringId
      THEN [store |-> S, result |-> "DuplicateName", ret |-> invalidStringId]
      ELSE
        LET \* Store the cell name.
            S1 == [S EXCEPT !.cellNames = Intern(@, cellName)]
            cellNameStringId == Lookup(S1.cellNames, cellName)
            \* Store the cell meta data.
            S2 == [S1 EXCEPT !.cellMetaData = Append(@, <<>>)]
            m == StoreCellMetaData(S2, metaData, 1)
            \* Store the expression counts.
            S3 == [m.store EXCEPT !.cellExpressionCounts = Append(@, <<>>)]
            e == StoreExpressionCounts(S3, [sum1 |-> 0, sum2 |-> 0], expressionCounts, 1)
            \* Sort the expression counts just stored by GeneId.
            n == Len(e.store.cellExpressionCounts)
            S4 == [e.store EXCEPT !.cellExpressionCounts[n] = SortSeq(@, PairLess)]
            \* Add this cell to the AllCells set, store the Cell.
            S5 == [S4 EXCEPT !.cellSets = Put(@, "AllCells",
                                            Append(@["AllCells"], Len(S4.cells))),
                             !.cells = Append(@, e.cell)]
        IN
        IF m.err # "" THEN [store |-> m.store, result |-> m.err, ret |-> invalidStringId]
        ELSE IF e.err # "" THEN [store |-> e.store, result |-> e.err, ret |-> invalidStringId]
        ELSE IF HasAdjacentDuplicate(S4.cellExpressionCounts[n])
        THEN [store |-> S4, result |-> "DuplicateGene", ret |-> invalidStringId]
        ELSE IF "AllCells" \notin DOMAIN S4.cellSets
        THEN \* cellSets.cellSets["AllCells"] is a null pointer that is dereferenced.
             [store |-> S4, result |-> "NullDereference", ret |-> invalidStringId]
        ELSE IF ~AddCellSanityChecks(S5)
        THEN [store |-> S5, result |-> "AssertionFailed", ret |-> invalidStringId]
        ELSE [store |-> S5, result |-> "ok", ret |-> AddCellReturn(S5, cellNameStringId)]

(***************************************************************************)
(* ExpressionMatrix::getCellMetaData(cellId, name)                         *)
(***************************************************************************)
getCellMetaDataById(S, cellId, nameId) ==
    LET row == S.cellMetaData[cellId + 1] IN
    IF \E i \in 1..Len(row) : row[i][1] = nameId
    THEN LET i == CHOOSE k \in 1..Len(row) :
                    /\ row[k][1] = nameId
                    /\ \A j \in 1..(k - 1) : row[j][1] # nameId
             valueId == row[i][2]
         IN IF valueId = invalidStringId THEN ""
            ELSE S.cellMetaDataValues[valueId + 1]
    ELSE ""

\* A const member function: the store it leaves is the store it was given,
\* the name being looked up with operator(), which does not insert.
getCellMetaData(S, cellId, name) ==
    LET nameId == Lookup(S.cellMetaDataNames, name) IN
    [store |-> S,
     ret |-> IF nameId = invalidStringId THEN ""
             ELSE getCellMetaDataById(S, cellId, nameId)]

(***************************************************************************)
(* ExpressionMatrix::setCellMetaData, its three overloads.                 *)
(***************************************************************************)
HasMetaDataName(S, cellId, nameId) ==
    \E i \in 1..Len(S.cellMetaData[cellId + 1]) : S.cellMetaData[cellId + 1][i][1] = nameId

\* The row with the value of its first pair named nameId replaced.
ReplaceFirst(row, nameId, valueId) ==
    LET i == CHOOSE k \in 1..Len(row) :
                /\ row[k][1] = nameId
                /\ \A j \in 1..(k - 1) : row[j][1] # nameId
    IN [row EXCEPT ![i] = <<nameId, valueId>>]

\* A variant of setCellMetaData that appends a pair even when the name is present.
setCellMetaDataIdsAppendOnly(S, cellId, nameId, valueId) ==
    incrementCellMetaDataNameUsageCount(
        [S EXCEPT !.cellMetaData[cellId + 1] = Append(@, <<nameId, valueId>>)],
        nameId)

setCellMetaDataIds(S, cellId, nameId, valueId) ==
    IF HasMetaDataName(S, cellId, nameId)
    THEN [store |-> [S EXCEPT !.cellMetaData[cellId + 1] = ReplaceFirst(@, nameId, valueId)],
          err |-> ""]
    ELSE incrementCellMetaDataNameUsageCount(
            [S EXCEPT !.cellMetaData[cellId + 1] = Append(@, <<nameId, valueId>>)],
            nameId)

setCellMetaDataNameId(S, cellId, nameId, value) ==
    LET S1 == [S EXCEPT !.cellMetaDataValues = Intern(@, value)]
    IN setCellMetaDataIds(S1, cellId, nameId, Lookup(S1.cellMetaDataValues, value))

setCellMetaData(S, cellId, name, value) ==
    LET S1 == [S EXCEPT !.cellMetaDataNames = Intern(@, name),
                        !.cellMetaDataValues = Intern(@, value)]
    IN setCellMetaDataIds(S1, cellId, Lookup(S1.cellMetaDataNames, name),
                          Lookup(S1.cellMetaDataValues, value))

(***************************************************************************)
(* ExpressionMatrix::storeClusterId(metaDataName, graph).  The graph is    *)
(* the sequence of its vertices [cellId, clusterId] in iteration order.    *)
(***************************************************************************)
\* lexical_cast<string>(clusterId)
ClusterIdString(clusterId) == <<"0", "1", "2", "3">>[clusterId + 1]

RECURSIVE StoreClusterIdLoop(_, _, _, _)
StoreClusterIdLoop(S, nameId, graph, i) ==
    IF i > Len(graph) THEN [store |-> S, err |-> ""]
    ELSE LET r == setCellMetaDataNameId(S, graph[i].cellId, nameId,
                                        ClusterIdString(graph[i].clusterId))
         IN IF r.err # "" THEN r ELSE StoreClusterIdLoop(r.store, nameId, graph, i + 1)

storeClusterId(S, metaDataName, graph) ==
    LET S1 == [S EXCEPT !.cellMetaDataNames = Intern(@, metaDataName)]
    IN StoreClusterIdLoop(S1, Lookup(S1.cellMetaDataNames, metaDataName), graph, 1)

(***************************************************************************)
(* MemoryMapped::Vector. The memory of an open vector is a shared mapping  *)
(* of its file, so the header and the data of the vector are the content   *)
(* of the file: [size, header, data], size the length of the file in bytes *)
(* and data the objects the file has room for, those past objectCount      *)
(* included. The object itself holds isOpen, isOpenWithWriteAccess and     *)
(* fileName.                                                               *)
(***************************************************************************)
pageSize == 4096
headerSize == 256
objectSize == 1280
constantMagicNumber == "a3756fd4b5d8bcc1"

computePageCount(n) == (n - 1) \div pageSize + 1

\* Header::Header(n, requestedCapacity); requestedCapacity >= n is asserted.
Header(n, requestedCapacity) ==
    LET pageCount == computePageCount(headerSize + objectSize * requestedCapacity)
        fileSize == pageCount * pageSize
    IN [headerSize |-> headerSize, objectSize |-> objectSize, objectCount |-> n,
        pageCount |-> pageCount, fileSize |-> fileSize,
        capacity |-> (fileSize - headerSize) \div objectSize,
        magicNumber |-> constantMagicNumber]

\* The objects of a file of the given length in bytes: those of data that
\* fit, and T() (all bytes zero) where ftruncate made the file longer.
Truncated(data, fileSize) ==
    [i \in 1..((fileSize - headerSize) \div objectSize) |->
        IF i <= Len(data) THEN data[i] ELSE 0]

\* data with T() constructed at the objects from + 1 .. to.
Constructed(data, from, to) ==
    [i \in 1..Len(data) |-> IF i > from /\ i <= to THEN 0 ELSE data[i]]

ClosedVector == [isOpen |-> FALSE, isOpenWithWriteAccess |-> FALSE, fileName |-> <<>>]
OpenVector(name, readWriteAccess) ==
    [isOpen |-> TRUE, isOpenWithWriteAccess |-> readWriteAccess, fileName |-> name]

\* Vector::createNew: the content of the new file.
createNew(n, requiredCapacity) ==
    LET header == Header(n, IF requiredCapacity > n THEN requiredCapacity ELSE n)
    IN [size |-> header.fileSize, header |-> header,
        data |-> Constructed(Truncated(<<>>, header.fileSize), 0, n)]

\* The first 256 bytes of a file that no header was stored in: ftruncate
\* fills with zero bytes.
ZeroHeader ==
    [headerSize |-> 0, objectSize |-> 0, objectCount |-> 0, pageCount |-> 0,
     fileSize |-> 0, capacity |-> 0, magicNumber |-> "0000000000000000"]

\* Vector::createNew when ftruncate or mmap fails: the file that openNew
\* made (O_CREAT | O_TRUNC) as the call leaves it. truncate and map close
\* the file descriptor and throw; the handler of createNew throws again.
createNewFailing(n, requiredCapacity, failing) ==
    LET header == Header(n, IF requiredCapacity > n THEN requiredCapacity ELSE n)
        fileSize == IF failing = "truncate" THEN 0 ELSE header.fileSize
    IN [size |-> fileSize, header |-> ZeroHeader,
        data |-> IF fileSize = 0 THEN <<>> ELSE Truncated(<<>>, fileSize)]

\* Vector::size and the objects of an open vector, in order.
size(file) == file.header.objectCount
Elements(file) == SubSeq(file.data, 1, size(file))

\* A variant of resize that, growing past the capacity, constructs every
\* object of the vector anew.
resizeConstructingAll(file, newSize) ==
    LET oldSize == size(file) IN
    IF newSize < oldSize
    THEN [file EXCEPT !.header.objectCount = newSize]
    ELSE IF newSize <= file.header.capacity
    THEN [file EXCEPT !.header.objectCount = newSize,
                      !.data = Constructed(file.data, oldSize, newSize)]
    ELSE LET header == Header(newSize, (3 * newSize) \div 2)
         IN [size |-> header.fileSize, header |-> header,
             data |-> Constructed(Truncated(file.data, header.fileSize), 0, newSize)]

\* Vector::resize: the content of the file afterwards.
resize(file, newSize) ==
    LET oldSize == size(file) IN
    IF newSize < oldSize
    THEN [file EXCEPT !.header.objectCount = newSize]
    ELSE IF newSize <= file.header.capacity
    THEN [file EXCEPT !.header.objectCount = newSize,
                      !.data = Constructed(file.data, oldSize, newSize)]
    ELSE LET header == Header(newSize, (3 * newSize) \div 2)
         IN [size |-> header.fileSize, header |-> header,
             data |-> Constructed(Truncated(file.data, header.fileSize), oldSize, newSize)]

\* Vector::reserve(capacity), where capacity >= size() is asserted: the
\* content of the file afterwards. The new header is made after close(), when
\* isOpen is false and size() is 0.
reserve(file, capacity) ==
    IF capacity = file.header.capacity THEN file
    ELSE LET sizeWhenClosed == 0
             header == Header(sizeWhenClosed, capacity)
         IN [size |-> header.fileSize, header |-> header,
             data |-> Truncated(file.data, header.fileSize)]

\* Vector::push_back.
push_back(file, t) ==
    LET resized == resize(file, size(file) + 1)
    IN [resized EXCEPT !.data[size(resized)] = t]

\* The sanity checks of Vector::accessExisting on a file.
accessExistingChecks(file) ==
    /\ file.header.magicNumber = constantMagicNumber
    /\ file.header.fileSize = file.size
    /\ file.header.objectSize = objectSize

(***************************************************************************)
(* MemoryMapped::VectorOfVectors: a Vector toc of row boundaries and a     *)
(* Vector data of the elements of all rows, each in a file of its own.     *)
(* A value of it is the pair of files [toc, data].                         *)
(***************************************************************************)
\* The vectors of the object are closed, the count vector is empty and no
\* call of a two-pass build was made.
NewVectorOfVectors ==
    [isOpen |-> FALSE, count |-> <<>>, pass |-> 0,
     counts |-> <<>>, stored |-> <<>>, outside |-> FALSE]

\* toc.back().
tocBack(v) == v.toc.data[size(v.toc)]

\* VectorOfVectors::createNew.
vovCreateNew == [toc |-> push_back(createNew(0, 0), 0), data |-> createNew(0, 0)]

\* VectorOfVectors::size(): the number of rows.
vovSize(v) == size(v.toc) - 1

\* VectorOfVectors::operator[]: the elements from toc[i] to toc[i+1].
vovRow(v, i) ==
    [k \in 1..(v.toc.data[i + 2] - v.toc.data[i + 1]) |-> v.data.data[v.toc.data[i + 1] + k]]

\* A variant of appendVector that begins the new row at 0.
appendVectorAtZero(v) == [v EXCEPT !.toc = push_back(v.toc, 0)]

\* VectorOfVectors::appendVector().
appendVector(v) == [v EXCEPT !.toc = push_back(v.toc, tocBack(v))]

\* VectorOfVectors::append, where !empty() is asserted.
append(v, t) ==
    [toc |-> [v.toc EXCEPT !.data[size(v.toc)] = tocBack(v) + 1],
     data |-> push_back(v.data, t)]

RECURSIVE SumOfCounts(_)
SumOfCounts(count) ==
    IF count = <<>> THEN 0 ELSE count[1] + SumOfCounts(Tail(count))

\* The toc that beginPass2 makes of the counts: after reserve and resize,
\* toc[0] = 0 and toc[i+1] = toc[i] + count[i].
tocOfCounts(toc, count) ==
    LET n == Len(count)
        resized == resize(reserve(toc, n + 1), n + 1)
    IN [resized EXCEPT !.data =
            [k \in 1..Len(resized.data) |->
                IF k <= n + 1 THEN SumOfCounts(SubSeq(count, 1, k - 1)) ELSE resized.data[k]]]

\* VectorOfVectors::beginPass2 on a count vector with a positive sum:
\* dataSize = toc.back() - 1ULL.
beginPass2(v, count) ==
    LET toc == tocOfCounts(v.toc, count)
        dataSize == toc.data[size(toc)] - 1
    IN [toc |-> toc, data |-> resize(reserve(v.data, dataSize), dataSize)]

RECURSIVE PushBackAll(_, _, _)
\* push_back of the objects i, i + 1, ... of a sequence.
PushBackAll(file, s, i) ==
    IF i > Len(s) THEN file ELSE PushBackAll(push_back(file, s[i]), s, i + 1)

(***************************************************************************)
(* The files of an ExpressionMatrix: one for each vector and table of the  *)
(* store, one for each gene set and one for each cell set. Graphs are kept *)
(* in memory only.                                                         *)
(***************************************************************************)
MemberFileNames ==
    [geneNames |-> "GeneNames", cells |-> "Cells", cellNames |-> "CellNames",
     cellMetaData |-> "CellMetaData", cellMetaDataNames |-> "CellMetaDataNames",
     cellMetaDataValues |-> "CellMetaDataValues",
     cellMetaDataNamesUsageCount |-> "CellMetaDataNamesUsageCount",
     cellExpressionCounts |-> "CellExpressionCounts"]

\* The file that holds a sequence of objects pushed into a new vector.
FileOf(s) == PushBackAll(createNew(0, 0), s, 1)

\* The files of the store S, by name.
StoreFiles(S) ==
    [name \in {<<"Member", MemberFileNames[m]>> : m \in DOMAIN MemberFileNames}
              \cup {<<"GeneSet", n>> : n \in DOMAIN S.geneSets}
              \cup {<<"CellSet", n>> : n \in DOMAIN S.cellSets} |->
        IF name[1] = "GeneSet" THEN FileOf(S.geneSets[name[2]])
        ELSE IF name[1] = "CellSet" THEN FileOf(S.cellSets[name[2]])
        ELSE FileOf(S[CHOOSE m \in DOMAIN MemberFileNames : MemberFileNames[m] = name[2]])]

\* f with the values of g at the keys of g.
Overwritten(f, g) == [x \in DOMAIN f \cup DOMAIN g |-> IF x \in DOMAIN g THEN g[x] ELSE f[x]]

\* ExpressionMatrix::ExpressionMatrix(directoryName): the store read from the
\* files of a directory, and whether its sanity checks pass.
AccessStore(directory) ==
    LET Member(m) == Elements(directory[<<"Member", MemberFileNames[m]>>])
        SetsOf(kind) ==
            [n \in {name[2] : name \in {x \in DOMAIN directory : x[1] = kind}} |->
                Elements(directory[<<kind, n>>])]
        S == [geneNames |-> Member("geneNames"), cells |-> Member("cells"),
              cellNames |-> Member("cellNames"), cellMetaData |-> Member("cellMetaData"),
              cellMetaDataNames |-> Member("cellMetaDataNames"),
              cellMetaDataValues |-> Member("cellMetaDataValues"),
              cellMetaDataNamesUsageCount |-> Member("cellMetaDataNamesUsageCount"),
              cellExpressionCounts |-> Member("cellExpressionCounts"),
              cellSets |-> SetsOf("CellSet"), geneSets |-> SetsOf("GeneSet"),
              graphs |-> <<>>]
    IN [store |-> S,
        result |->
            IF \E name \in DOMAIN directory : ~accessExistingChecks(directory[name])
            THEN "runtime_error"
            ELSE IF "AllGenes" \notin DOMAIN S.geneSets THEN "runtime_error"
            ELSE IF /\ Len(S.cellNames) = Len(S.cells)
                    /\ Len(S.cellMetaData) = Len(S.cells)
                    /\ Len(S.cellExpressionCounts) = Len(S.cells)
                    /\ Len(S.cellSets["AllCells"]) = Len(S.cells)
                    /\ Len(S.cellMetaDataNamesUsageCount) = Len(S.cellMetaDataNames)
                    /\ Len(S.geneSets["AllGenes"]) = Len(S.geneNames)
            THEN "ok" ELSE "assertion"]

(***************************************************************************)
(* The calls a client makes, one action each.                              *)
(***************************************************************************)
NoCall ==
    [op |-> "none", result |-> "", ret |-> invalidStringId, cell |-> invalidStringId,
     name |-> "", value |-> "", run |-> 0, before |-> 0, expr |-> {}, had |-> FALSE,
     inputs |-> <<>>, out |-> <<>>]

Init ==
    /\ geneNames = NewStore.geneNames
    /\ cells = NewStore.cells
    /\ cellNames = NewStore.cellNames
    /\ cellMetaData = NewStore.cellMetaData
    /\ cellMetaDataNames = NewStore.cellMetaDataNames
    /\ cellMetaDataValues = NewStore.cellMetaDataValues
    /\ cellMetaDataNamesUsageCount = NewStore.cellMetaDataNamesUsageCount
    /\ cellExpressionCounts = NewStore.cellExpressionCounts
    /\ cellSets = NewStore.cellSets
    /\ geneSets = NewStore.geneSets
    /\ graphs = NewStore.graphs
    /\ last = NoCall
    /\ calls = 0
    /\ files = StoreFiles(NewStore)
    /\ vector = ClosedVector
    /\ vectorOfVectors = NewVectorOfVectors
    /\ signatures = <<>>
    /\ constructed = TRUE

\* One more call, of at most max.
Call(max) == calls < max /\ calls' = calls + 1 /\ UNCHANGED <<files, vector, vectorOfVectors, signatures, constructed>>

AddGene ==
    /\ Call(MaxCalls)
    /\ \E geneName \in GeneNameStrings :
        \E r \in {addGene(Store, geneName)} :
        /\ SetStore(r.store)
        /\ last' = [NoCall EXCEPT !.op = "addGene", !.result = "ok", !.name = geneName,
                                  !.had = r.ret, !.before = geneCount(Store)]

\* The positive counts of an input, by gene name.
PositiveCounts(expressionCounts) ==
    {expressionCounts[i] : i \in {j \in 1..Len(expressionCounts) : expressionCounts[j][2] > 0}}

AddCellWith(metaDataInputs, expressionCountsInputs, max) ==
    /\ Call(max)
    /\ \E metaData \in metaDataInputs, expressionCounts \in expressionCountsInputs :
        \E r \in {addCell(Store, metaData, expressionCounts)} :
        /\ SetStore(r.store)
        /\ last' = [NoCall EXCEPT
                      !.op = "addCell", !.result = r.result, !.ret = r.ret,
                      !.before = Len(cells),
                      !.name = IF r.result = "ok"
                               THEN metaData[CellNameIndex(metaData)][2] ELSE "",
                      !.expr = IF r.result = "ok"
                               THEN PositiveCounts(expressionCounts) ELSE {}]

\* addCell with every list of up to two expression counts, and with no meta
\* data, a cell name, or a cell name after another pair.
AddCell ==
    AddCellWith({<<>>} \cup {<<c>> : c \in CellNamePairs}
                      \cup {<<(<<"k", "x">>), c>> : c \in CellNamePairs},
                SeqsUpTo(GeneNameStrings \X Counts, 2), MaxCalls)

\* addCell with every list of up to two meta data pairs, and with one
\* expression count, positive or negative.
AddCellMeta ==
    AddCellWith(SeqsUpTo(CellNamePairs \cup {<<"k", "x">>}, 2),
                {<<(<<"g0", 1>>)>>, <<(<<"g0", -1>>)>>}, MaxMetaCalls)

SetCellMetaData ==
    /\ Call(MaxMetaCalls)
    /\ \E cellId \in 0..(cellCount(Store) - 1), name \in MetaNameStrings,
       value \in MetaValueStrings :
        \E r \in {setCellMetaData(Store, cellId, name, value)} :
        LET nameId == Lookup(cellMetaDataNames, name)
            same == /\ last.op = "setCellMetaData"
                    /\ last.cell = cellId
                    /\ last.name = name
        IN
        /\ SetStore(r.store)
        /\ last' = [NoCall EXCEPT
                      !.op = "setCellMetaData",
                      !.result = IF r.err = "" THEN "ok" ELSE r.err,
                      !.cell = cellId, !.name = name, !.value = value,
                      !.run = IF same THEN 2 ELSE 1,
                      !.had = nameId # invalidStringId
                              /\ HasMetaDataName(Store, cellId, nameId)]

GetCellMetaData ==
    /\ Call(MaxMetaCalls)
    /\ \E cellId \in 0..(cellCount(Store) - 1), name \in MetaNameStrings :
        \E r \in {getCellMetaData(Store, cellId, name)} :
        LET nameId == Lookup(cellMetaDataNames, name)
            same == /\ last.op = "setCellMetaData"
                    /\ last.cell = cellId
                    /\ last.name = name
        IN
        /\ SetStore(r.store)
        /\ last' = [NoCall EXCEPT
                      !.op = "getCellMetaData", !.result = "ok",
                      !.cell = cellId, !.name = name,
                      !.value = r.ret,
                      !.run = IF same THEN last.run ELSE 0,
                      !.expr = IF same THEN {last.value} ELSE {},
                      !.before = Len(cellMetaDataNames) + Len(cellMetaDataValues),
                      !.had = nameId # invalidStringId
                              /\ HasMetaDataName(Store, cellId, nameId)]

\* The graphs storeClusterId is called with: any set of stored cells, in
\* ascending order, all in one cluster.
Graphs ==
    {SortSeq(g, LAMBDA v, w : v.cellId < w.cellId) :
        g \in {[i \in 1..Cardinality(V) |->
                    [cellId |-> CHOOSE c \in V : Cardinality({d \in V : d < c}) = i - 1,
                     clusterId |-> 0]] :
               V \in SUBSET (0..(Len(cells) - 1))}}

StoreClusterId ==
    /\ Call(MaxMetaCalls)
    /\ \E metaDataName \in MetaNameStrings, graph \in Graphs :
        \E r \in {storeClusterId(Store, metaDataName, graph)} :
        /\ SetStore(r.store)
        /\ last' = [NoCall EXCEPT
                      !.op = "storeClusterId",
                      !.result = IF r.err = "" THEN "ok" ELSE r.err,
                      !.name = metaDataName, !.before = Len(graph)]

Next ==
    \/ AddGene
    \/ AddCell

Spec == Init /\ [][Next]_vars

NextMeta ==
    \/ AddCellMeta
    \/ SetCellMetaData
    \/ GetCellMetaData
    \/ StoreClusterId

SpecMeta == Init /\ [][NextMeta]_vars

(***************************************************************************)
(* Set algebra: named gene sets and cell sets.                             *)
(*                                                                         *)
(* A GeneSet and a CellSet are kept as the sequence of ids they store.     *)
(* std::set_union, std::set_intersection and std::set_difference are the   *)
(* merges of the C++ standard library over two sorted ranges.              *)
(***************************************************************************)
RECURSIVE set_union(_, _)
set_union(a, b) ==
    IF a = <<>> THEN b
    ELSE IF b = <<>> THEN a
    ELSE IF b[1] < a[1] THEN <<b[1]>> \o set_union(a, Tail(b))
    ELSE IF a[1] < b[1] THEN <<a[1]>> \o set_union(Tail(a), b)
    ELSE <<a[1]>> \o set_union(Tail(a), Tail(b))

RECURSIVE set_intersection(_, _)
set_intersection(a, b) ==
    IF a = <<>> \/ b = <<>> THEN <<>>
    ELSE IF a[1] < b[1] THEN set_intersection(Tail(a), b)
    ELSE IF b[1] < a[1] THEN set_intersection(a, Tail(b))
    ELSE <<a[1]>> \o set_intersection(Tail(a), Tail(b))

RECURSIVE set_difference(_, _)
set_difference(a, b) ==
    IF a = <<>> THEN <<>>
    ELSE IF b = <<>> THEN a
    ELSE IF a[1] < b[1] THEN <<a[1]>> \o set_difference(Tail(a), b)
    ELSE IF b[1] < a[1] THEN set_difference(a, Tail(b))
    ELSE set_difference(Tail(a), Tail(b))

\* The regular expressions the calls are made with, and boost::regex_match
\* (a match of the whole string) on the strings of the model.
Regexes == {".*", "g0", "g[12]", "x"}
regex_match(s, regex) ==
    CASE regex = ".*" -> TRUE
      [] regex = "g0" -> s = "g0"
      [] regex = "g[12]" -> s \in {"g1", "g2"}
      [] regex = "x" -> s = "x"

\* The genes of a sequence added to a gene set one by one, from position i.
RECURSIVE AddGenes(_, _, _)
AddGenes(set, genes, i) ==
    IF i > Len(genes) THEN set
    ELSE AddGenes(GeneSetAddGene(set, genes[i]), genes, i + 1)

\* The ids of the elements of a sequence that satisfy a test, in order.
RECURSIVE SelectIndices(_, _)
SelectIndices(flags, i) ==
    IF i > Len(flags) THEN <<>>
    ELSE (IF flags[i] THEN <<i - 1>> ELSE <<>>) \o SelectIndices(flags, i + 1)

GeneSetExists(S, name) == name \in DOMAIN S.geneSets

createGeneSetFromRegex(S, geneSetName, regexString) ==
    IF GeneSetExists(S, geneSetName) THEN [store |-> S, result |-> "false"]
    ELSE LET matching == SelectIndices(
                 [g \in 1..geneCount(S) |-> regex_match(S.geneNames[g], regexString)], 1)
             geneSet == GeneSetSort(AddGenes(<<>>, matching, 1))
         IN [store |-> [S EXCEPT !.geneSets = Put(@, geneSetName, geneSet)],
             result |-> "ok"]

\* The gene ids of the names of a list, empty and unknown names skipped.
RECURSIVE GeneIdsOfNames(_, _, _)
GeneIdsOfNames(S, geneNamesVector, i) ==
    IF i > Len(geneNamesVector) THEN <<>>
    ELSE LET geneName == geneNamesVector[i]
             stringId == Lookup(S.geneNames, geneName)
         IN (IF geneName = "" \/ stringId = invalidStringId THEN <<>> ELSE <<stringId>>)
            \o GeneIdsOfNames(S, geneNamesVector, i + 1)

createGeneSetFromGeneNames(S, geneSetName, geneNamesVector) ==
    IF GeneSetExists(S, geneSetName) THEN [store |-> S, result |-> "false"]
    ELSE LET geneSet == GeneSetSort(
                 AddGenes(<<>>, GeneIdsOfNames(S, geneNamesVector, 1), 1))
         IN [store |-> [S EXCEPT !.geneSets = Put(@, geneSetName, geneSet)],
             result |-> "ok"]

\* The merge of the sets named from position i on into the output so far.
RECURSIVE MergeSets(_, _, _, _, _)
MergeSets(sets, inputSetsNames, i, outputSet, doUnion) ==
    IF i > Len(inputSetsNames) THEN outputSet
    ELSE LET inputSet == sets[inputSetsNames[i]]
         IN MergeSets(sets, inputSetsNames, i + 1,
                      IF i = 1 THEN inputSet
                      ELSE IF doUnion THEN set_union(outputSet, inputSet)
                      ELSE set_intersection(outputSet, inputSet),
                      doUnion)

\* inputSetsNames is the list boost::algorithm::split makes of the comma
\* separated names.
createGeneSetIntersectionOrUnion(S, inputSetsNames, outputSetName, doUnion) ==
    IF GeneSetExists(S, outputSetName) THEN [store |-> S, result |-> "false"]
    ELSE IF \E i \in 1..Len(inputSetsNames) : ~GeneSetExists(S, inputSetsNames[i])
    THEN [store |-> S, result |-> "false"]
    ELSE LET outputSetGenes == MergeSets(S.geneSets, inputSetsNames, 1, <<>>, doUnion)
             outputGeneSet == GeneSetSort(AddGenes(<<>>, outputSetGenes, 1))
         IN [store |-> [S EXCEPT !.geneSets = Put(@, outputSetName, outputGeneSet)],
             result |-> "ok"]

createGeneSetDifference(S, inputSetName0, inputSetName1, outputSetName) ==
    IF GeneSetExists(S, outputSetName) THEN [store |-> S, result |-> "false"]
    ELSE IF ~GeneSetExists(S, inputSetName0) \/ ~GeneSetExists(S, inputSetName1)
    THEN [store |-> S, result |-> "false"]
    ELSE LET outputSetGenes == set_difference(S.geneSets[inputSetName0],
                                              S.geneSets[inputSetName1])
             outputGeneSet == GeneSetSort(AddGenes(<<>>, outputSetGenes, 1))
         IN [store |-> [S EXCEPT !.geneSets = Put(@, outputSetName, outputGeneSet)],
             result |-> "ok"]

\* sufficient[i] tells whether the information content computed for the
\* gene at local id i - 1 of the existing set exceeds the threshold; the
\* value of the information content is not computed here.
createGeneSetUsingInformationContent(S, existingGeneSetName, cellSetName, sufficient, newGeneSetName) ==
    IF ~GeneSetExists(S, existingGeneSetName) THEN [store |-> S, result |-> "runtime_error"]
    ELSE IF cellSetName \notin DOMAIN S.cellSets THEN [store |-> S, result |-> "runtime_error"]
    ELSE IF GeneSetExists(S, newGeneSetName) THEN [store |-> S, result |-> "runtime_error"]
    ELSE LET existingGeneSet == S.geneSets[existingGeneSetName]
             kept == SelectIndices(
                 [i \in 1..Len(existingGeneSet) |-> sufficient[i]], 1)
             newGeneSet == AddGenes(<<>>,
                 [k \in 1..Len(kept) |-> existingGeneSet[kept[k] + 1]], 1)
         IN [store |-> [S EXCEPT !.geneSets = Put(@, newGeneSetName, newGeneSet)],
             result |-> "ok"]

\* CellSets::exists and CellSets::addCellSet.
CellSetExists(S, name) == name \in DOMAIN S.cellSets
addCellSet(S, cellSetName, cellSet) ==
    IF CellSetExists(S, cellSetName) THEN [store |-> S, result |-> "NameExists"]
    ELSE [store |-> [S EXCEPT !.cellSets = Put(@, cellSetName, cellSet)],
          result |-> "ok"]

\* Whether a meta data pair of the cell has the given name and a value that
\* matches the regular expression.
CellMatches(S, cellId, metaDataFieldName, regexString) ==
    \E i \in 1..Len(S.cellMetaData[cellId + 1]) :
        LET p == S.cellMetaData[cellId + 1][i] IN
        /\ S.cellMetaDataNames[p[1] + 1] = metaDataFieldName
        /\ regex_match(S.cellMetaDataValues[p[2] + 1], regexString)

createCellSetUsingMetaData(S, cellSetName, metaDataFieldName, regexString) ==
    IF CellSetExists(S, cellSetName) THEN [store |-> S, result |-> "false"]
    ELSE LET cellSet == SelectIndices(
                 [c \in 1..Len(S.cells) |->
                     CellMatches(S, c - 1, metaDataFieldName, regexString)], 1)
         IN addCellSet(S, cellSetName, cellSet)

createCellSetIntersectionOrUnion(S, inputSetsNames, outputSetName, doUnion) ==
    IF CellSetExists(S, outputSetName) THEN [store |-> S, result |-> "false"]
    ELSE IF \E i \in 1..Len(inputSetsNames) : ~CellSetExists(S, inputSetsNames[i])
    THEN [store |-> S, result |-> "false"]
    ELSE addCellSet(S, outputSetName,
                    MergeSets(S.cellSets, inputSetsNames, 1, <<>>, doUnion))

createCellSetDifference(S, inputSetName0, inputSetName1, outputSetName) ==
    IF CellSetExists(S, outputSetName) THEN [store |-> S, result |-> "false"]
    ELSE IF ~CellSetExists(S, inputSetName0) \/ ~CellSetExists(S, inputSetName1)
    THEN [store |-> S, result |-> "false"]
    ELSE addCellSet(S, outputSetName,
                    set_difference(S.cellSets[inputSetName0], S.cellSets[inputSetName1]))

\* The i-th number, in tenths, drawn from the generator seeded with seed: a
\* fixed function of the seed and of the position in the sequence of draws.
uniformGenerator(seed, i) == (seed * 7 + i * 3) % 10

\* A variant of downsampleCellSet that keeps a cell when the number drawn
\* equals the probability.
downsampleCellSetInclusive(S, inputCellSetName, outputCellSetName, probability, seed) ==
    IF ~CellSetExists(S, inputCellSetName) THEN [store |-> S, result |-> "false"]
    ELSE LET inputCellSet == S.cellSets[inputCellSetName]
             kept == SelectIndices(
                 [i \in 1..Len(inputCellSet) |->
                     uniformGenerator(seed, i) <= probability], 1)
             outputCellSet == [k \in 1..Len(kept) |-> inputCellSet[kept[k] + 1]]
         IN addCellSet(S, outputCellSetName, outputCellSet)

\* probability is in tenths.
downsampleCellSet(S, inputCellSetName, outputCellSetName, probability, seed) ==
    IF ~CellSetExists(S, inputCellSetName) THEN [store |-> S, result |-> "false"]
    ELSE LET inputCellSet == S.cellSets[inputCellSetName]
             kept == SelectIndices(
                 [i \in 1..Len(inputCellSet) |->
                     uniformGenerator(seed, i) < probability], 1)
             outputCellSet == [k \in 1..Len(kept) |-> inputCellSet[kept[k] + 1]]
         IN addCellSet(S, outputCellSetName, outputCellSet)

(***************************************************************************)
(* The set operations as actions, on a store of up to three cells and      *)
(* three genes that addCell fills before the first set is made.            *)
(***************************************************************************)
SetsCells ==
    << [metaData |-> << <<"CellName", "a">>, <<"k", "x">> >>,
        expressionCounts |-> << <<"g0", 1>>, <<"g1", 2>> >>],
       [metaData |-> << <<"CellName", "b">>, <<"k", "y">>, <<"k", "x">> >>,
        expressionCounts |-> << <<"g1", 1>>, <<"g2", 1>> >>],
       [metaData |-> << <<"CellName", "c">>, <<"j", "x">> >>,
        expressionCounts |-> << <<"g0", 1>> >>] >>

AddCellForSets ==
    /\ calls = 0
    /\ Len(cells) < Len(SetsCells)
    /\ \E r \in {addCell(Store, SetsCells[Len(cells) + 1].metaData,
                         SetsCells[Len(cells) + 1].expressionCounts)} :
        SetStore(r.store)
    /\ UNCHANGED <<last, calls, files, vector, vectorOfVectors, signatures, constructed>>

\* The names of the sets made and used, and the inputs of the calls.
NewSetNames == {"A", "B"}
GeneSetNames == {"AllGenes"} \cup NewSetNames
CellSetNames == {"AllCells"} \cup NewSetNames
GeneNameLists == SeqsUpTo({"g0", "g2", "", "zz"}, 2)
\* One or two names, or three names of which the first and the last are "A".
SetNameLists(names) ==
    (SeqsUpTo(names, 2) \ {<<>>}) \cup {<<"A", n, "A">> : n \in names}
Probabilities == {0, 5, 10}
Seeds == {1, 2}

\* The stored sets named by a list of names, those that do not exist left out.
SetsNamed(sets, names) ==
    [i \in 1..Len(names) |->
        IF names[i] \in DOMAIN sets THEN sets[names[i]] ELSE <<>>]

\* Whether a call names an output set that exists or an input set that does not.
BadSetNames(sets, inputNames, output) ==
    \/ output \in DOMAIN sets
    \/ \E i \in 1..Len(inputNames) : inputNames[i] \notin DOMAIN sets

SetCall(r, op, inputs, output, bad) ==
    /\ SetStore(r.store)
    /\ last' = IF r.result = "ok"
               THEN [NoCall EXCEPT !.op = op, !.result = r.result,
                                   !.name = output, !.inputs = inputs, !.had = bad]
               ELSE [NoCall EXCEPT !.op = op, !.result = r.result, !.had = bad]

CreateGeneSetFromRegex ==
    /\ Call(MaxSetCalls)
    /\ \E geneSetName \in NewSetNames, regexString \in Regexes :
        SetCall(createGeneSetFromRegex(Store, geneSetName, regexString),
                "createGeneSetFromRegex", <<>>, geneSetName,
                BadSetNames(geneSets, <<>>, geneSetName))

CreateGeneSetFromGeneNames ==
    /\ Call(MaxSetCalls)
    /\ \E geneSetName \in NewSetNames, geneNamesVector \in GeneNameLists :
        SetCall(createGeneSetFromGeneNames(Store, geneSetName, geneNamesVector),
                "createGeneSetFromGeneNames", <<>>, geneSetName,
                BadSetNames(geneSets, <<>>, geneSetName))

CreateGeneSetUnion ==
    /\ Call(MaxSetCalls)
    /\ \E inputSetsNames \in SetNameLists(GeneSetNames), outputSetName \in NewSetNames :
        SetCall(createGeneSetIntersectionOrUnion(Store, inputSetsNames, outputSetName, TRUE),
                "createGeneSetUnion", SetsNamed(geneSets, inputSetsNames), outputSetName,
                BadSetNames(geneSets, inputSetsNames, outputSetName))

CreateGeneSetIntersection ==
    /\ Call(MaxSetCalls)
    /\ \E inputSetsNames \in SetNameLists(GeneSetNames), outputSetName \in NewSetNames :
        SetCall(createGeneSetIntersectionOrUnion(Store, inputSetsNames, outputSetName, FALSE),
                "createGeneSetIntersection", SetsNamed(geneSets, inputSetsNames), outputSetName,
                BadSetNames(geneSets, inputSetsNames, outputSetName))

CreateGeneSetDifference ==
    /\ Call(MaxSetCalls)
    /\ \E inputSetName0 \in GeneSetNames, inputSetName1 \in GeneSetNames,
          outputSetName \in NewSetNames :
        SetCall(createGeneSetDifference(Store, inputSetName0, inputSetName1, outputSetName),
                "createGeneSetDifference",
                SetsNamed(geneSets, <<inputSetName0, inputSetName1>>), outputSetName,
                BadSetNames(geneSets, <<inputSetName0, inputSetName1>>, outputSetName))

CreateGeneSetUsingInformationContent ==
    /\ Call(MaxSetCalls)
    /\ \E existingGeneSetName \in GeneSetNames, cellSetName \in CellSetNames,
          newGeneSetName \in NewSetNames :
        \E sufficient \in [1..Len(SetsNamed(geneSets, <<existingGeneSetName>>)[1]) -> BOOLEAN] :
            SetCall(createGeneSetUsingInformationContent(Store, existingGeneSetName,
                        cellSetName, sufficient, newGeneSetName),
                    "createGeneSetUsingInformationContent",
                    SetsNamed(geneSets, <<existingGeneSetName>>), newGeneSetName,
                    \/ BadSetNames(geneSets, <<existingGeneSetName>>, newGeneSetName)
                    \/ cellSetName \notin DOMAIN cellSets)

CreateCellSetUsingMetaData ==
    /\ Call(MaxSetCalls)
    /\ \E cellSetName \in NewSetNames, metaDataFieldName \in MetaNameStrings,
          regexString \in Regexes :
        SetCall(createCellSetUsingMetaData(Store, cellSetName, metaDataFieldName, regexString),
                "createCellSetUsingMetaData", <<>>, cellSetName,
                BadSetNames(cellSets, <<>>, cellSetName))

CreateCellSetUnion ==
    /\ Call(MaxSetCalls)
    /\ \E inputSetsNames \in SetNameLists(CellSetNames), outputSetName \in NewSetNames :
        SetCall(createCellSetIntersectionOrUnion(Store, inputSetsNames, outputSetName, TRUE),
                "createCellSetUnion", SetsNamed(cellSets, inputSetsNames), outputSetName,
                BadSetNames(cellSets, inputSetsNames, outputSetName))

CreateCellSetIntersection ==
    /\ Call(MaxSetCalls)
    /\ \E inputSetsNames \in SetNameLists(CellSetNames), outputSetName \in NewSetNames :
        SetCall(createCellSetIntersectionOrUnion(Store, inputSetsNames, outputSetName, FALSE),
                "createCellSetIntersection", SetsNamed(cellSets, inputSetsNames), outputSetName,
                BadSetNames(cellSets, inputSetsNames, outputSetName))

CreateCellSetDifference ==
    /\ Call(MaxSetCalls)
    /\ \E inputSetName0 \in CellSetNames, inputSetName1 \in CellSetNames,
          outputSetName \in NewSetNames :
        SetCall(createCellSetDifference(Store, inputSetName0, inputSetName1, outputSetName),
                "createCellSetDifference",
                SetsNamed(cellSets, <<inputSetName0, inputSetName1>>), outputSetName,
                BadSetNames(cellSets, <<inputSetName0, inputSetName1>>, outputSetName))

DownsampleCellSet ==
    /\ Call(MaxSetCalls)
    /\ \E inputCellSetName \in CellSetNames, outputCellSetName \in NewSetNames,
          probability \in Probabilities, seed \in Seeds :
        \E r \in {downsampleCellSet(Store, inputCellSetName, outputCellSetName,
                                    probability, seed)} :
            /\ SetStore(r.store)
            /\ last' = IF r.result = "ok"
                       THEN [NoCall EXCEPT
                               !.op = "downsampleCellSet", !.result = r.result,
                               !.name = outputCellSetName,
                               !.inputs = SetsNamed(cellSets, <<inputCellSetName>>),
                               !.before = probability, !.run = seed,
                               !.had = BadSetNames(cellSets, <<inputCellSetName>>,
                                                   outputCellSetName)]
                       ELSE [NoCall EXCEPT
                               !.op = "downsampleCellSet", !.result = r.result,
                               !.had = BadSetNames(cellSets, <<inputCellSetName>>,
                                                   outputCellSetName)]

NextSets ==
    \/ AddCellForSets
    \/ CreateGeneSetFromRegex
    \/ CreateGeneSetFromGeneNames
    \/ CreateGeneSetUnion
    \/ CreateGeneSetIntersection
    \/ CreateGeneSetDifference
    \/ CreateGeneSetUsingInformationContent
    \/ CreateCellSetUsingMetaData
    \/ CreateCellSetUnion
    \/ CreateCellSetIntersection
    \/ CreateCellSetDifference
    \/ DownsampleCellSet

SpecSets == Init /\ [][NextSets]_vars

\* ExpressionMatrix::removeCellSet, after the name was found in the request:
\* the cell set of that name, if there is one, is erased.
removeCellSet(S, cellSetName) ==
    IF cellSetName \notin DOMAIN S.cellSets THEN [store |-> S, result |-> "does not exist"]
    ELSE [store |-> [S EXCEPT !.cellSets = [n \in DOMAIN @ \ {cellSetName} |-> @[n]]],
          result |-> "ok"]

\* The request removeCellSet?cellSetName=..., for any name, or without the
\* parameter; the file of an erased cell set is removed.
RemoveCellSet ==
    /\ calls < MaxSetCalls
    /\ calls' = calls + 1
    /\ \E request \in {<<>>} \cup {<<"cellSetName", n>> : n \in CellSetNames} :
        IF request = <<>>
        THEN /\ SetStore(Store)
             /\ last' = [NoCall EXCEPT !.op = "removeCellSet", !.result = "missing name"]
             /\ UNCHANGED files
        ELSE \E r \in {removeCellSet(Store, request[2])} :
             /\ SetStore(r.store)
             /\ last' = [NoCall EXCEPT !.op = "removeCellSet", !.result = r.result,
                                       !.name = request[2]]
             /\ files' = IF r.result = "ok"
                         THEN [n \in DOMAIN files \ {<<"CellSet", request[2]>>} |-> files[n]]
                         ELSE files
    /\ UNCHANGED <<vector, vectorOfVectors, signatures, constructed>>

\* Cells are added, with well-formed inputs.
AddCellForCellSets ==
    AddCellWith({<<c>> : c \in CellNamePairs}, {<<(<<"g0", 1>>)>>}, MaxSetCalls)

\* Cells added, and cell sets created and removed, in any order.
NextCellSets ==
    \/ AddCellForCellSets
    \/ CreateCellSetUsingMetaData
    \/ CreateCellSetUnion
    \/ RemoveCellSet

SpecCellSets == Init /\ [][NextCellSets]_vars

\* Down-sampling alone, of AllCells and of cell sets selected by meta data.
NextDownsample ==
    \/ AddCellForSets
    \/ CreateCellSetUsingMetaData
    \/ DownsampleCellSet

SpecDownsample == Init /\ [][NextDownsample]_vars

(***************************************************************************)
(* Cell similarity graphs.  The registry keeps, per graph name, the        *)
(* GraphInformation the graph was created with; the graph object itself,   *)
(* built by the CellSimilarityGraph constructor, is not represented.       *)
(***************************************************************************)
createCellSimilarityGraph(S, graphName, cellSetName, similarPairsName, similarityThreshold, maxConnectivity) ==
    IF graphName \in DOMAIN S.graphs THEN [store |-> S, result |-> "runtime_error"]
    ELSE IF cellSetName \notin DOMAIN S.cellSets
    THEN [store |-> S, result |-> "runtime_error"]
    ELSE [store |-> [S EXCEPT !.graphs = Put(@, graphName,
                        [cellSetName |-> cellSetName,
                         similarPairsName |-> similarPairsName,
                         similarityThreshold |-> similarityThreshold,
                         maxConnectivity |-> maxConnectivity])],
          result |-> "ok"]

GraphNames == {"G", "H"}
SimilarPairsNames == {"P"}
\* Similarity thresholds, in tenths, and numbers of neighbours.
SimilarityThresholds == {2, 5}
MaxConnectivities == {1, 2}

CreateCellSimilarityGraph ==
    /\ Call(MaxSetCalls)
    /\ \E graphName \in GraphNames, cellSetName \in CellSetNames,
          similarPairsName \in SimilarPairsNames,
          similarityThreshold \in SimilarityThresholds,
          maxConnectivity \in MaxConnectivities :
        \E r \in {createCellSimilarityGraph(Store, graphName, cellSetName,
                      similarPairsName, similarityThreshold, maxConnectivity)} :
            /\ SetStore(r.store)
            /\ last' = [NoCall EXCEPT
                          !.op = "createCellSimilarityGraph",
                          !.result = r.result,
                          !.name = graphName,
                          !.had = \/ graphName \in DOMAIN graphs
                                  \/ cellSetName \notin DOMAIN cellSets]

NextGraph ==
    \/ AddCellForSets
    \/ CreateCellSetUsingMetaData
    \/ CreateCellSimilarityGraph

SpecGraph == Init /\ [][NextGraph]_vars

(***************************************************************************)
(* The exact similarity of two cells.  The double returned by the code is  *)
(* numerator / sqrt(radicand); on the integer counts of the model both are *)
(* exact, and the quotient is kept as the pair with the kind of value the  *)
(* IEEE division and square root make of it.                               *)
(***************************************************************************)
\* A variant of the scalar product loop that, on equal gene ids, adds the
\* product and advances in the first row only.
RECURSIVE ScalarProductOneSided(_, _)
ScalarProductOneSided(row0, row1) ==
    IF row0 = <<>> \/ row1 = <<>> THEN 0
    ELSE IF row0[1][1] < row1[1][1] THEN ScalarProductOneSided(Tail(row0), row1)
    ELSE IF row1[1][1] < row0[1][1] THEN ScalarProductOneSided(Tail(row0), Tail(row1))
    ELSE row0[1][2] * row1[1][2] + ScalarProductOneSided(Tail(row0), Tail(row1))

\* The scalar product loop over the two sorted rows.
RECURSIVE ScalarProduct(_, _)
ScalarProduct(row0, row1) ==
    IF row0 = <<>> \/ row1 = <<>> THEN 0
    ELSE IF row0[1][1] < row1[1][1] THEN ScalarProduct(Tail(row0), row1)
    ELSE IF row1[1][1] < row0[1][1] THEN ScalarProduct(row0, Tail(row1))
    ELSE row0[1][2] * row1[1][2] + ScalarProduct(Tail(row0), Tail(row1))

\* numerator / sqrt(radicand) in IEEE arithmetic.
DivideBySqrt(numerator, radicand) ==
    [kind |-> IF radicand < 0 THEN "NaN"
              ELSE IF radicand > 0 THEN "finite"
              ELSE IF numerator = 0 THEN "NaN"
              ELSE IF numerator > 0 THEN "+inf" ELSE "-inf",
     numerator |-> numerator, radicand |-> radicand]

\* A variant of computeCellSimilarity that weighs the scalar product with
\* n - 1 in place of n.
computeCellSimilarityUnbiased(S, cellId0, cellId1) ==
    LET scalarProduct == ScalarProduct(S.cellExpressionCounts[cellId0 + 1],
                                       S.cellExpressionCounts[cellId1 + 1])
        n == geneCount(S)
        cell0 == S.cells[cellId0 + 1]
        cell1 == S.cells[cellId1 + 1]
        numerator == (n - 1) * scalarProduct - cell0.sum1 * cell1.sum1
        radicand == (n * cell0.sum2 - cell0.sum1 * cell0.sum1)
                    * (n * cell1.sum2 - cell1.sum1 * cell1.sum1)
    IN [scalarProduct |-> scalarProduct, ret |-> DivideBySqrt(numerator, radicand)]

\* Whether a similarity is a number and at least the threshold, a positive
\* number of tenths: the test of pair selection.
AtLeastThreshold(v, threshold) ==
    /\ v.kind = "finite"
    /\ v.numerator > 0
    /\ 100 * v.numerator * v.numerator >= threshold * threshold * v.radicand

computeCellSimilarity(S, cellId0, cellId1) ==
    LET scalarProduct == ScalarProduct(S.cellExpressionCounts[cellId0 + 1],
                                       S.cellExpressionCounts[cellId1 + 1])
        n == geneCount(S)
        cell0 == S.cells[cellId0 + 1]
        cell1 == S.cells[cellId1 + 1]
        numerator == n * scalarProduct - cell0.sum1 * cell1.sum1
        radicand == (n * cell0.sum2 - cell0.sum1 * cell0.sum1)
                    * (n * cell1.sum2 - cell1.sum1 * cell1.sum1)
    IN [scalarProduct |-> scalarProduct, ret |-> DivideBySqrt(numerator, radicand)]

\* The cells of SpecSimilarity: their names in the order they are added, and
\* the expression counts a cell is added with.
SimilarityCellNames == <<"a", "b", "c", "d">>
SimilarityExpressionCounts ==
    { <<>>,
      << <<"g0", 1>>, <<"g1", 2>>, <<"g2", 3>> >>,
      << <<"g0", 2>>, <<"g1", 4>>, <<"g2", 6>> >>,
      << <<"g2", 3>>, <<"g0", 1>> >>,
      << <<"g0", 1>> >>,
      << <<"g1", 2>>, <<"g0", 0>> >>,
      << <<"g0", 1>>, <<"g1", 1>>, <<"g2", 1>> >>,
      << <<"g0", 2>>, <<"g1", 2>>, <<"g2", 2>> >> }

AddCellSimilarity ==
    /\ Len(cells) < MaxSimilarityCells
    /\ \E expressionCounts \in SimilarityExpressionCounts :
        \E r \in {addCell(Store, << <<"CellName", SimilarityCellNames[Len(cells) + 1]>> >>,
                          expressionCounts)} :
            SetStore(r.store)
    /\ last' = NoCall
    /\ UNCHANGED <<calls, files, vector, vectorOfVectors, signatures, constructed>>

ComputeCellSimilarity ==
    /\ \E cellId0 \in 0..(Len(cells) - 1), cellId1 \in 0..(Len(cells) - 1) :
        \E r \in {computeCellSimilarity(Store, cellId0, cellId1)} :
            last' = [NoCall EXCEPT !.op = "computeCellSimilarity", !.result = "ok",
                                   !.cell = cellId0, !.run = cellId1,
                                   !.before = r.scalarProduct, !.out = r.ret]
    /\ UNCHANGED <<geneNames, cells, cellNames, cellMetaData, cellMetaDataNames,
                   cellMetaDataValues, cellMetaDataNamesUsageCount,
                   cellExpressionCounts, cellSets, geneSets, graphs, calls,
                   files, vector, vectorOfVectors, signatures, constructed>>

NextSimilarity ==
    \/ AddCellSimilarity
    \/ ComputeCellSimilarity

SpecSimilarity == Init /\ [][NextSimilarity]_vars

(***************************************************************************)
(* ExpressionMatrixSubset: the expression counts of the cells of a cell    *)
(* set, restricted to the genes of a gene set, with local ids.             *)
(***************************************************************************)
invalidGeneId == -1

\* GeneSet::getLocalGeneId: the position of a gene in the gene set, or
\* invalidGeneId when the gene is not in the set.
getLocalGeneId(geneSet, globalGeneId) ==
    IF \E i \in 1..Len(geneSet) : geneSet[i] = globalGeneId
    THEN (CHOOSE i \in 1..Len(geneSet) :
            /\ geneSet[i] = globalGeneId
            /\ \A j \in 1..(i - 1) : geneSet[j] # globalGeneId) - 1
    ELSE invalidGeneId

RECURSIVE SubsetRowWithGlobalIds(_, _, _)
\* A variant of SubsetRow that keeps the global gene id of an entry.
SubsetRowWithGlobalIds(geneSet, row, i) ==
    IF i > Len(row) THEN <<>>
    ELSE IF getLocalGeneId(geneSet, row[i][1]) = invalidGeneId
         THEN SubsetRowWithGlobalIds(geneSet, row, i + 1)
         ELSE << row[i] >> \o SubsetRowWithGlobalIds(geneSet, row, i + 1)

RECURSIVE SubsetRow(_, _, _)
\* The loop over the expression counts of one cell, from entry i on.
SubsetRow(geneSet, row, i) ==
    IF i > Len(row) THEN <<>>
    ELSE LET localGeneId == getLocalGeneId(geneSet, row[i][1]) IN
         IF localGeneId = invalidGeneId
         THEN SubsetRow(geneSet, row, i + 1)
         ELSE << <<localGeneId, row[i][2]>> >> \o SubsetRow(geneSet, row, i + 1)

\* std::is_sorted.
is_sorted(s) == \A i \in 2..Len(s) : s[i - 1] <= s[i]

\* The constructor. It fills cellExpressionCounts; the member sums is left
\* as it is default-constructed, without an element for any cell.
ExpressionMatrixSubset(geneSet, cellSet, globalExpressionCounts) ==
    IF ~is_sorted(geneSet) \/ ~is_sorted(cellSet)
    THEN [result |-> "assertion", geneSet |-> geneSet, cellSet |-> cellSet,
          cellExpressionCounts |-> <<>>, sums |-> <<>>]
    ELSE [result |-> "ok", geneSet |-> geneSet, cellSet |-> cellSet,
          cellExpressionCounts |->
              [localCellId \in 1..Len(cellSet) |->
                  SubsetRow(geneSet, globalExpressionCounts[cellSet[localCellId] + 1], 1)],
          sums |-> <<>>]

RECURSIVE SumOfRow(_, _, _)
\* The sum of count^power over the entries of a row, from entry i on.
SumOfRow(row, power, i) ==
    IF i > Len(row) THEN 0
    ELSE (IF power = 1 THEN row[i][2] ELSE row[i][2] * row[i][2])
         + SumOfRow(row, power, i + 1)

(***************************************************************************)
(* Lsh: random hyperplanes over the genes of a subset view and the         *)
(* signature of each of its cells. A component of an LSH vector is kept as *)
(* [x, norm2], standing for x / sqrt(norm2): the draw and the sum of the   *)
(* squares it is normalized with.                                          *)
(***************************************************************************)
MaxLshCount == 2
MaxSubsetCells == 2

\* Draw k (from 0) of the normal generator over a Mersenne twister seeded
\* with seed: a function of seed and k only, here with small non-zero values.
normalGenerator(seed, k) ==
    LET v == (seed * 3 + k * 5) % 7 IN IF v < 3 THEN v - 3 ELSE v - 2

RECURSIVE SumOverGenes(_, _, _, _)
\* The sum of x^power over the draws for LSH vector lshVectorId and the
\* genes geneId, geneId + 1, ... below lshCount.
SumOverGenes(seed, lshCount, lshVectorId, geneId) ==
    IF geneId >= lshCount THEN 0
    ELSE LET x == normalGenerator(seed, geneId * lshCount + lshVectorId)
         IN x * x + SumOverGenes(seed, lshCount, lshVectorId, geneId + 1)

\* Lsh::generateLshVectors: the outcomes the call can have. Both loops over
\* genes run to lshCount: rows of genes from lshCount on stay zero, and with
\* lshCount > geneCount the loops write past the end of lshVectors, after
\* which the call may stop the program or go on.
generateLshVectors(genes, lshCount, seed) ==
    LET lshVectors ==
            [g \in 1..genes |->
                [i \in 1..lshCount |->
                    [x |-> IF g - 1 < lshCount
                           THEN normalGenerator(seed, (g - 1) * lshCount + (i - 1))
                           ELSE 0,
                     norm2 |-> SumOverGenes(seed, lshCount, i - 1, 0)]]]
    IN IF lshCount > genes
       THEN {[result |-> "crash", lshVectors |-> <<>>],
             [result |-> "ok", lshVectors |-> lshVectors]}
       ELSE {[result |-> "ok", lshVectors |-> lshVectors]}

\* The values a read of a double outside the memory of a vector can give.
IndeterminateDoubles == {-4, 0, 4}

\* The values of sum1 that computeCellLshSignatures can read, a choice for
\* each local cell id: the element of sums when there is one.
SumsRead(view) ==
    LET Read(localCellId) ==
            IF localCellId <= Len(view.sums)
            THEN {view.sums[localCellId].sum1}
            ELSE IndeterminateDoubles
    IN {f \in [1..Len(view.cellSet) -> UNION {Read(c) : c \in 1..Len(view.cellSet)}] :
            \A c \in 1..Len(view.cellSet) : f[c] \in Read(c)}

RECURSIVE lshVectorsSums(_, _, _)
\* The sum of the components x of LSH vector i over genes g, g + 1, ...
lshVectorsSums(lshVectors, i, g) ==
    IF g > Len(lshVectors) THEN 0
    ELSE lshVectors[g][i].x + lshVectorsSums(lshVectors, i, g + 1)

RECURSIVE CountsTimesVector(_, _, _, _)
\* The sum of count * x over the entries k, k + 1, ... of a row of the view.
CountsTimesVector(lshVectors, row, i, k) ==
    IF k > Len(row) THEN 0
    ELSE row[k][2] * lshVectors[row[k][1] + 1][i].x
         + CountsTimesVector(lshVectors, row, i, k + 1)

\* Lsh::computeCellLshSignatures, with sum1 the values read from sums. Bit i
\* of a cell is set when -mean * lshVectorsSums[i] + sum of count * v[i] > 0,
\* mean = sum1 / geneCount; the sign is taken here after multiplying with
\* geneCount * sqrt(norm2), which is positive.
computeCellLshSignatures(view, lshVectors, sum1) ==
    IF lshVectors = <<>>
    THEN [result |-> "assertion", signatures |-> <<>>]
    ELSE LET lshCount == Len(lshVectors[1])
             genes == Len(view.geneSet)
         IN [result |-> "ok",
             signatures |->
                [c \in 1..Len(view.cellSet) |->
                    [i \in 1..lshCount |->
                        genes * CountsTimesVector(lshVectors, view.cellExpressionCounts[c], i, 1)
                        - sum1[c] * lshVectorsSums(lshVectors, i, 1) > 0]]]

\* Lsh::Lsh: the outcomes of building the LSH object of a subset view.
Lsh(view, lshCount, seed) ==
    UNION {IF g.result # "ok"
           THEN {[result |-> g.result, lshVectors |-> <<>>, signatures |-> <<>>]}
           ELSE {[result |-> s.result, lshVectors |-> g.lshVectors, signatures |-> s.signatures] :
                    s \in {computeCellLshSignatures(view, g.lshVectors, sum1) :
                              sum1 \in SumsRead(view)}} :
           g \in generateLshVectors(Len(view.geneSet), lshCount, seed)}

\* The sorted sequences of at most n ids below count.
SortedIds(count, n) == {s \in SeqsUpTo(0..(count - 1), n) : is_sorted(s)}

LshCounts == 1..MaxLshCount

\* A subset view is made of a gene set and a cell set of the store.
CreateExpressionMatrixSubset ==
    /\ \E geneSet \in SortedIds(Len(geneNames), 3), cellSet \in SortedIds(Len(cells), MaxSubsetCells) :
        \E view \in {ExpressionMatrixSubset(geneSet, cellSet, cellExpressionCounts)} :
            last' = [NoCall EXCEPT !.op = "ExpressionMatrixSubset", !.result = view.result,
                                   !.expr = view]
    /\ UNCHANGED <<geneNames, cells, cellNames, cellMetaData, cellMetaDataNames,
                   cellMetaDataValues, cellMetaDataNamesUsageCount,
                   cellExpressionCounts, cellSets, geneSets, graphs, calls,
                   files, vector, vectorOfVectors, signatures, constructed>>

\* The LSH object is built of the subset view made last.
CreateLsh ==
    /\ last.op \in {"ExpressionMatrixSubset", "Lsh"}
    /\ \E lshCount \in LshCounts, seed \in Seeds :
        \E r \in Lsh(last.expr, lshCount, seed) :
            last' = [NoCall EXCEPT !.op = "Lsh", !.result = r.result, !.expr = last.expr,
                                   !.inputs = <<lshCount, seed>>,
                                   !.out = [lshVectors |-> r.lshVectors,
                                            signatures |-> r.signatures]]
    /\ UNCHANGED <<geneNames, cells, cellNames, cellMetaData, cellMetaDataNames,
                   cellMetaDataValues, cellMetaDataNamesUsageCount,
                   cellExpressionCounts, cellSets, geneSets, graphs, calls,
                   files, vector, vectorOfVectors, signatures, constructed>>

NextLsh ==
    \/ AddCellForSets
    \/ CreateExpressionMatrixSubset
    \/ CreateLsh

SpecLsh == Init /\ [][NextLsh]_vars

\* The subset views alone.
NextSubset ==
    \/ AddCellForSets
    \/ CreateExpressionMatrixSubset

SpecSubset == Init /\ [][NextSubset]_vars

(***************************************************************************)
(* SimilarPairs: for each cell the list of at most k similar cells, made   *)
(* by findSimilarPairs0 from the exact similarity of all pairs of cells.   *)
(* An entry is [cell, similarity], the similarity as computeCellSimilarity *)
(* returns it.                                                             *)
(***************************************************************************)
MaxPairsCells == 4
MaxK == 2

\* Whether similarity u is greater than similarity v, both positive numbers.
GreaterSimilarity(u, v) ==
    u.numerator * u.numerator * v.radicand > v.numerator * v.numerator * u.radicand

\* The position of an entry of least similarity in a list that is not empty.
LeastSimilar(list) ==
    CHOOSE i \in 1..Len(list) :
        \A j \in 1..Len(list) : ~GreaterSimilarity(list[i].similarity, list[j].similarity)

\* A variant of SimilarPairsAdd that, on a full list, replaces the entry
\* stored last whatever its similarity.
SimilarPairsAddReplacingLast(list, k, entry) ==
    IF Len(list) < k THEN Append(list, entry)
    ELSE [list EXCEPT ![Len(list)] = entry]

\* An entry is added to the list of a cell, which keeps the k entries of
\* greatest similarity.
SimilarPairsAdd(list, k, entry) ==
    IF Len(list) < k THEN Append(list, entry)
    ELSE LET i == LeastSimilar(list) IN
         IF GreaterSimilarity(entry.similarity, list[i].similarity)
         THEN [list EXCEPT ![i] = entry]
         ELSE list

\* The list of a cell is sorted by decreasing similarity.
SimilarPairsSort(list) ==
    SortSeq(list, LAMBDA u, v : GreaterSimilarity(u.similarity, v.similarity))

RECURSIVE FindSimilarPairsLoop(_, _, _, _, _, _)
\* The loop over the pairs cellId0 < cellId1 of cells, from the given pair on.
FindSimilarPairsLoop(S, k, similarityThreshold, lists, cellId0, cellId1) ==
    IF cellId0 >= cellCount(S) THEN lists
    ELSE IF cellId1 >= cellCount(S)
    THEN FindSimilarPairsLoop(S, k, similarityThreshold, lists, cellId0 + 1, cellId0 + 2)
    ELSE LET similarity == computeCellSimilarity(S, cellId0, cellId1).ret
             added ==
                IF AtLeastThreshold(similarity, similarityThreshold)
                THEN [lists EXCEPT
                        ![cellId0 + 1] = SimilarPairsAdd(@, k, [cell |-> cellId1, similarity |-> similarity]),
                        ![cellId1 + 1] = SimilarPairsAdd(@, k, [cell |-> cellId0, similarity |-> similarity])]
                ELSE lists
         IN FindSimilarPairsLoop(S, k, similarityThreshold, added, cellId0, cellId1 + 1)

\* findSimilarPairs0 with the exact similarity: the lists of all cells.
findSimilarPairs0(S, k, similarityThreshold) ==
    LET lists == FindSimilarPairsLoop(S, k, similarityThreshold,
                                      [c \in 1..cellCount(S) |-> <<>>], 0, 1)
    IN [c \in 1..cellCount(S) |-> SimilarPairsSort(lists[c])]

\* The cells of SpecPairs: their names in the order they are added and the
\* expression counts a cell is added with, over three genes.
PairsCellNames == <<"a", "b", "c", "d", "e">>
PairsExpressionCounts ==
    { <<>>,
      << <<"g0", 1>>, <<"g1", 2>>, <<"g2", 3>> >>,
      << <<"g0", 1>>, <<"g1", 1>>, <<"g2", 2>> >>,
      << <<"g0", 0>>, <<"g1", 1>>, <<"g2", 3>> >>,
      << <<"g0", 0>>, <<"g1", 3>>, <<"g2", 4>> >> }

AddCellPairs ==
    /\ Len(cells) < MaxPairsCells
    /\ \E expressionCounts \in PairsExpressionCounts :
        \E r \in {addCell(Store, << <<"CellName", PairsCellNames[Len(cells) + 1]>> >>,
                          expressionCounts)} :
            SetStore(r.store)
    /\ last' = NoCall
    /\ UNCHANGED <<calls, files, vector, vectorOfVectors, signatures, constructed>>

FindSimilarPairs0 ==
    /\ \E k \in 1..MaxK, similarityThreshold \in SimilarityThresholds :
        last' = [NoCall EXCEPT !.op = "findSimilarPairs0", !.result = "ok",
                               !.run = k, !.before = similarityThreshold,
                               !.out = findSimilarPairs0(Store, k, similarityThreshold)]
    /\ UNCHANGED <<geneNames, cells, cellNames, cellMetaData, cellMetaDataNames,
                   cellMetaDataValues, cellMetaDataNamesUsageCount,
                   cellExpressionCounts, cellSets, geneSets, graphs, calls,
                   files, vector, vectorOfVectors, signatures, constructed>>

NextPairs ==
    \/ AddCellPairs
    \/ FindSimilarPairs0

SpecPairs == Init /\ [][NextPairs]_vars

(***************************************************************************)
(* A MemoryMapped::Vector created, changed, closed and accessed again.     *)
(* The calls are those whose assertions hold; writes are made through a    *)
(* mapping with write access.                                              *)
(***************************************************************************)
MaxVectorSize == 4

VectorFileName == <<"Vector", "x">>
Objects == {1, 2}

StoreUnchanged ==
    UNCHANGED <<geneNames, cells, cellNames, cellMetaData, cellMetaDataNames,
                cellMetaDataValues, cellMetaDataNamesUsageCount,
                cellExpressionCounts, cellSets, geneSets, graphs, calls, constructed>>

\* The file of the vector is replaced, by a call with the given name; the
\* call asked for the given size, and overflowed the capacity or not.
VectorWrite(op, file, requested) ==
    /\ files' = Put(files, VectorFileName, file)
    /\ last' = [NoCall EXCEPT !.op = op, !.result = "ok", !.run = requested,
                              !.had = requested > files[VectorFileName].header.capacity]
    /\ UNCHANGED <<vector, vectorOfVectors, signatures>>
    /\ StoreUnchanged

VectorCreateNew ==
    /\ ~vector.isOpen
    /\ \E n \in 0..2, requiredCapacity \in {0, 4} :
        files' = Put(files, VectorFileName, createNew(n, requiredCapacity))
    /\ vector' = OpenVector(VectorFileName, TRUE)
    /\ last' = [NoCall EXCEPT !.op = "createNew", !.result = "ok"]
    /\ UNCHANGED <<vectorOfVectors, signatures>>
    /\ StoreUnchanged

\* createNew on a system whose ftruncate or mmap fails.
VectorCreateNewFailing ==
    /\ ~vector.isOpen
    /\ \E n \in 0..2, requiredCapacity \in {0, 4}, failing \in {"truncate", "map"} :
        /\ files' = Put(files, VectorFileName, createNewFailing(n, requiredCapacity, failing))
        /\ last' = [NoCall EXCEPT !.op = "createNew", !.result = "runtime_error",
                                  !.name = failing]
    /\ UNCHANGED vector
    /\ UNCHANGED <<vectorOfVectors, signatures>>
    /\ StoreUnchanged

\* reserve(capacity) with capacity >= size(), which is asserted, and
\* reserve(), which is reserve(size()).
VectorReserve ==
    /\ vector.isOpenWithWriteAccess
    /\ \E capacity \in size(files[vector.fileName])..(MaxVectorSize + 1) :
        VectorWrite("reserve", reserve(files[vector.fileName], capacity), capacity)

VectorPushBack ==
    /\ vector.isOpenWithWriteAccess
    /\ size(files[vector.fileName]) < MaxVectorSize
    /\ \E t \in Objects : VectorWrite("push_back", push_back(files[vector.fileName], t),
                                         size(files[vector.fileName]) + 1)

VectorResize ==
    /\ vector.isOpenWithWriteAccess
    /\ \E newSize \in 0..MaxVectorSize :
        VectorWrite("resize", resize(files[vector.fileName], newSize), newSize)

\* x[i] = t for an object of the vector.
VectorAssign ==
    /\ vector.isOpenWithWriteAccess
    /\ \E i \in 0..(size(files[vector.fileName]) - 1), t \in Objects :
        VectorWrite("assign", [files[vector.fileName] EXCEPT !.data[i + 1] = t],
                    size(files[vector.fileName]))

\* Vector::close: the mapping is synced to the file and unmapped.
VectorClose ==
    /\ vector.isOpen
    /\ vector' = ClosedVector
    /\ last' = [NoCall EXCEPT !.op = "close", !.result = "ok",
                              !.out = Elements(files[vector.fileName])]
    /\ UNCHANGED files
    /\ UNCHANGED <<vectorOfVectors, signatures>>
    /\ StoreUnchanged

VectorAccessExisting ==
    /\ ~vector.isOpen
    /\ VectorFileName \in DOMAIN files
    /\ \E readWriteAccess \in BOOLEAN :
        IF accessExistingChecks(files[VectorFileName])
        THEN /\ vector' = OpenVector(VectorFileName, readWriteAccess)
             /\ last' = [NoCall EXCEPT !.op = "accessExisting", !.result = "ok",
                                       !.had = last.op = "close", !.out = last.out]
        ELSE /\ vector' = vector
             /\ last' = [NoCall EXCEPT !.op = "accessExisting", !.result = "runtime_error",
                                       !.had = last.op = "close", !.out = last.out]
    /\ UNCHANGED files
    /\ UNCHANGED <<vectorOfVectors, signatures>>
    /\ StoreUnchanged

NextVector ==
    \/ VectorCreateNew
    \/ VectorCreateNewFailing
    \/ VectorReserve
    \/ VectorPushBack
    \/ VectorResize
    \/ VectorAssign
    \/ VectorClose
    \/ VectorAccessExisting

SpecVector == Init /\ [][NextVector]_vars

(***************************************************************************)
(* cellIdFromString and geneIdFromString: a string taken as an id or as a  *)
(* name. Names here can be strings of digits.                              *)
(***************************************************************************)
LookupStrings == {"0", "1", "7", "01", "a", ""}
LookupCellNames == {"0", "1", "a"}
LookupGeneNames == {"1", "a"}

\* lexical_cast<CellId>(s), lexical_cast<GeneId>(s): the unsigned integer a
\* string of decimal digits stands for, leading zeros allowed; any other
\* string throws bad_lexical_cast.
lexical_cast(s) ==
    CASE s = "0" -> [bad_lexical_cast |-> FALSE, value |-> 0]
      [] s = "1" -> [bad_lexical_cast |-> FALSE, value |-> 1]
      [] s = "7" -> [bad_lexical_cast |-> FALSE, value |-> 7]
      [] s = "01" -> [bad_lexical_cast |-> FALSE, value |-> 1]
      [] OTHER -> [bad_lexical_cast |-> TRUE, value |-> 0]

\* ExpressionMatrix::cellIdFromString.
cellIdFromString(S, s) ==
    IF ~lexical_cast(s).bad_lexical_cast /\ lexical_cast(s).value < cellCount(S)
    THEN lexical_cast(s).value
    ELSE Lookup(S.cellNames, s)

\* ExpressionMatrix::geneIdFromString.
geneIdFromString(S, s) ==
    IF ~lexical_cast(s).bad_lexical_cast /\ lexical_cast(s).value < geneCount(S)
    THEN lexical_cast(s).value
    ELSE Lookup(S.geneNames, s)

AddCellForLookup ==
    AddCellWith({<<(<<"CellName", n>>)>> : n \in LookupCellNames}, {<<>>}, MaxCalls)

AddGeneForLookup ==
    /\ Call(MaxCalls)
    /\ \E geneName \in LookupGeneNames :
        \E r \in {addGene(Store, geneName)} :
        /\ SetStore(r.store)
        /\ last' = [NoCall EXCEPT !.op = "addGene", !.result = "ok", !.name = geneName,
                                  !.had = r.ret, !.before = geneCount(Store)]

\* A call that returns an id for a string and changes nothing.
LookupCall(op, s, id) ==
    /\ last' = [NoCall EXCEPT !.op = op, !.result = "ok", !.name = s, !.ret = id]
    /\ UNCHANGED <<files, vector, vectorOfVectors, signatures>>
    /\ StoreUnchanged

CellIdFromString ==
    \E s \in LookupStrings : LookupCall("cellIdFromString", s, cellIdFromString(Store, s))

GeneIdFromString ==
    \E s \in LookupStrings : LookupCall("geneIdFromString", s, geneIdFromString(Store, s))

NextLookup ==
    \/ AddCellForLookup
    \/ AddGeneForLookup
    \/ CellIdFromString
    \/ GeneIdFromString

SpecLookup == Init /\ [][NextLookup]_vars

(***************************************************************************)
(* BitSet: a vector of 64-bit words. A uint64_t is modelled in binary, as  *)
(* the set of the positions of its one bits, position 0 being the least    *)
(* significant.                                                            *)
(***************************************************************************)
MaxBitCount == 66

\* 1ULL << n.
ShiftedOne(n) == {n}

\* BitSet::BitSet(bitCount): ((bitCount - 1) >> 6) + 1 words, all 0.
BitSet(bitCount) == [w \in 1..(((bitCount - 1) \div 64) + 1) |-> {}]

\* A variant with the first bit in the least significant position.
bitPositionInWordFromLeast(bitPosition) == bitPosition % 64

\* The position in its word of a bit: the first bit is the most significant.
bitPositionInWord(bitPosition) == 63 - (bitPosition % 64)

\* BitSet::get.
get(bitSet, bitPosition) ==
    LET wordIndex == bitPosition \div 64
        word == bitSet[wordIndex + 1]
        mask == ShiftedOne(bitPositionInWord(bitPosition))
    IN (word \cap mask) # {}

\* BitSet::set.
set(bitSet, bitPosition) ==
    LET wordIndex == bitPosition \div 64
    IN [bitSet EXCEPT ![wordIndex + 1] = @ \cup ShiftedOne(bitPositionInWord(bitPosition))]

\* a < b for two uint64_t: at the most significant bit where they differ, b
\* has the one.
WordLess(a, b) ==
    \E p \in b \ a : \A q \in (a \cup b) : q > p => (q \in a <=> q \in b)

\* BitSet::operator<: data < that.data, the lexicographical comparison of
\* std::vector.
BitSetLess(x, y) ==
    \/ \E k \in 1..Len(x) :
        /\ k <= Len(y)
        /\ \A j \in 1..(k - 1) : x[j] = y[j]
        /\ WordLess(x[k], y[k])
    \/ Len(x) < Len(y) /\ \A j \in 1..Len(x) : x[j] = y[j]

\* The bit positions that are set in the model: the first, those on
\* both sides of the word boundary, and the last.
BitPositions(bitCount) == {i \in {0, 63, 64, MaxBitCount - 1} : i < bitCount}

\* signatures.resize(cellCount, BitSet(lshCount)), for two cells.
BitSetCall(op, k, bitPosition, out) ==
    /\ last' = [NoCall EXCEPT !.op = op, !.result = "ok", !.cell = k,
                              !.run = bitPosition, !.out = out]
    /\ UNCHANGED <<files, vector, vectorOfVectors>>
    /\ StoreUnchanged

BitSetConstruct ==
    /\ signatures = <<>>
    /\ \E bitCount \in {1, 64, 65, MaxBitCount} :
        /\ signatures' = <<BitSet(bitCount), BitSet(bitCount)>>
        /\ BitSetCall("BitSet", -1, bitCount, <<>>)

BitSetSet ==
    /\ signatures # <<>>
    /\ \E k \in 1..Len(signatures) :
        \E bitPosition \in BitPositions(64 * Len(signatures[k])) :
            /\ signatures' = [signatures EXCEPT ![k] = set(@, bitPosition)]
            /\ BitSetCall("set", k, bitPosition, <<>>)

BitSetGet ==
    /\ signatures # <<>>
    /\ \E k \in 1..Len(signatures) :
        \E bitPosition \in BitPositions(64 * Len(signatures[k])) :
            BitSetCall("get", k, bitPosition, get(signatures[k], bitPosition))
    /\ UNCHANGED signatures

\* signatures[0] < signatures[1].
BitSetCompare ==
    /\ signatures # <<>>
    /\ BitSetCall("operator<", -1, -1, BitSetLess(signatures[1], signatures[2]))
    /\ UNCHANGED signatures

NextBitSet ==
    \/ BitSetConstruct
    \/ BitSetSet
    \/ BitSetGet
    \/ BitSetCompare

SpecBitSet == Init /\ [][NextBitSet]_vars

(***************************************************************************)
(* A VectorOfVectors that is created and then filled, either by            *)
(* appendVector and append or by a build in two passes.                    *)
(***************************************************************************)
MaxRows == 3
MaxPassRows == 2
MaxRowLength == 2

TocFileName == <<"Vector", "x.toc">>
DataFileName == <<"Vector", "x.data">>

\* The files of the VectorOfVectors.
VovFiles == [toc |-> files[TocFileName], data |-> files[DataFileName]]

\* A call on the VectorOfVectors that leaves its files as v.
VovCall(op, result, v) ==
    /\ files' = Put(Put(files, TocFileName, v.toc), DataFileName, v.data)
    /\ last' = [NoCall EXCEPT !.op = op, !.result = result]
    /\ UNCHANGED <<vector, signatures>>
    /\ StoreUnchanged

VovCreateNew ==
    /\ ~vectorOfVectors.isOpen
    /\ VovCall("createNew", "ok", vovCreateNew)
    /\ vectorOfVectors' = [NewVectorOfVectors EXCEPT !.isOpen = TRUE]

VovAppendVector ==
    /\ vectorOfVectors.isOpen /\ vectorOfVectors.pass = 0
    /\ vovSize(VovFiles) < MaxRows
    /\ VovCall("appendVector", "ok", appendVector(VovFiles))
    /\ UNCHANGED vectorOfVectors

VovAppend ==
    /\ vectorOfVectors.isOpen /\ vectorOfVectors.pass = 0
    /\ size(VovFiles.data) < MaxVectorSize
    /\ \E t \in Objects :
        IF vovSize(VovFiles) = 0
        THEN VovCall("append", "assertion", VovFiles)
        ELSE VovCall("append", "ok", append(VovFiles, t))
    /\ UNCHANGED vectorOfVectors

VovBeginPass1 ==
    /\ vectorOfVectors.isOpen /\ vectorOfVectors.pass = 0
    /\ vovSize(VovFiles) = 0
    /\ \E n \in 0..MaxPassRows :
        vectorOfVectors' = [vectorOfVectors EXCEPT !.count = [i \in 1..n |-> 0], !.pass = 1]
    /\ VovCall("beginPass1", "ok", VovFiles)

VovIncrementCount ==
    /\ vectorOfVectors.pass = 1
    /\ \E index \in 0..(Len(vectorOfVectors.count) - 1) :
        /\ vectorOfVectors.count[index + 1] < MaxRowLength
        /\ vectorOfVectors' = [vectorOfVectors EXCEPT !.count[index + 1] = @ + 1]
    /\ VovCall("incrementCount", "ok", VovFiles)

\* VectorOfVectors::beginPass2. When the counts sum to 0, dataSize is
\* 0 - 1ULL = 2^64 - 1: data.reserve(dataSize) closes the vector and makes
\* Header(0, 2^64 - 1), whose fileSize (2^52 pages of 4096 bytes) is 0 in 64
\* bits; ftruncate empties the file and mmap of no bytes fails.
VovBeginPass2 ==
    /\ vectorOfVectors.pass = 1
    /\ IF SumOfCounts(vectorOfVectors.count) = 0
       THEN /\ VovCall("beginPass2", "runtime_error",
                       [toc |-> tocOfCounts(VovFiles.toc, vectorOfVectors.count),
                        data |-> createNewFailing(0, 0, "truncate")])
            /\ vectorOfVectors' = [vectorOfVectors EXCEPT !.pass = 3,
                                       !.counts = vectorOfVectors.count]
       ELSE /\ VovCall("beginPass2", "ok", beginPass2(VovFiles, vectorOfVectors.count))
            /\ vectorOfVectors' =
                    [vectorOfVectors EXCEPT !.pass = 2, !.counts = vectorOfVectors.count,
                        !.stored = [i \in 1..Len(vectorOfVectors.count) |-> <<>>]]

\* VectorOfVectors::store: (*this)[index][--count[index]] = t. The row
\* begins at data.begin() + toc[index]; no bound is checked. An object past
\* the size of data but below its capacity is in the mapped file; one past
\* the capacity is outside the mapping, and the write is lost or ends the
\* process.
VovStore ==
    /\ vectorOfVectors.pass = 2
    /\ \E index \in 0..(Len(vectorOfVectors.count) - 1), t \in Objects :
        /\ vectorOfVectors.count[index + 1] > 0
        /\ LET position == VovFiles.toc.data[index + 1] + vectorOfVectors.count[index + 1] - 1
               stored == [vectorOfVectors EXCEPT !.count[index + 1] = @ - 1,
                              !.stored[index + 1] = Append(@, t),
                              !.outside = @ \/ position >= size(VovFiles.data)]
           IN IF position < VovFiles.data.header.capacity
              THEN /\ VovCall("store", "ok",
                              [VovFiles EXCEPT !.data.data[position + 1] = t])
                   /\ vectorOfVectors' = stored
              ELSE \/ /\ VovCall("store", "ok", VovFiles)
                      /\ vectorOfVectors' = stored
                   \/ /\ VovCall("store", "crash", VovFiles)
                      /\ vectorOfVectors' = [stored EXCEPT !.pass = 3]

VovEndPass2 ==
    /\ vectorOfVectors.pass = 2
    /\ IF \A i \in 1..Len(vectorOfVectors.count) : vectorOfVectors.count[i] = 0
       THEN /\ VovCall("endPass2", "ok", VovFiles)
            /\ vectorOfVectors' = [vectorOfVectors EXCEPT !.count = <<>>, !.pass = 3]
       ELSE /\ VovCall("endPass2", "assertion", VovFiles)
            /\ UNCHANGED vectorOfVectors

NextAppend ==
    \/ VovCreateNew
    \/ VovAppendVector
    \/ VovAppend

SpecAppend == Init /\ [][NextAppend]_vars

NextTwoPass ==
    \/ VovCreateNew
    \/ VovBeginPass1
    \/ VovIncrementCount
    \/ VovBeginPass2
    \/ VovStore
    \/ VovEndPass2

SpecTwoPass == Init /\ [][NextTwoPass]_vars

(***************************************************************************)
(* An ExpressionMatrix that cells are added to, that is destroyed, which   *)
(* closes its files, and constructed again from its directory.             *)
(***************************************************************************)
MaxPersistCalls == 3

AddCellPersist ==
    /\ constructed
    /\ AddCellWith({<<c>> : c \in CellNamePairs},
                   {<<(<<"g0", 1>>)>>, <<(<<"g1", 2>>), (<<"g0", 1>>)>>, <<(<<"g0", -1>>)>>},
                   MaxPersistCalls)

\* The directory of the store: the files other than that of the lone vector.
Directory == [name \in {x \in DOMAIN files : x[1] # "Vector"} |-> files[name]]

\* The ExpressionMatrix object is destroyed: each of its vectors is closed.
CloseExpressionMatrix ==
    /\ constructed
    /\ files' = Overwritten(files, StoreFiles(Store))
    /\ SetStore(NewStore)
    /\ constructed' = FALSE
    /\ last' = [NoCall EXCEPT !.op = "close", !.result = "ok", !.out = Store]
    /\ UNCHANGED <<calls, vector, vectorOfVectors, signatures>>

\* ExpressionMatrix(directoryName): an object is constructed of the files.
AccessExpressionMatrix ==
    /\ ~constructed
    /\ \E r \in {AccessStore(Directory)} :
        /\ IF r.result = "ok"
           THEN SetStore(r.store) /\ constructed' = TRUE
           ELSE SetStore(Store) /\ constructed' = FALSE
        /\ last' = [NoCall EXCEPT !.op = "ExpressionMatrix", !.result = r.result,
                                  !.out = last.out]
    /\ UNCHANGED <<calls, files, vector, vectorOfVectors, signatures>>

NextPersist ==
    \/ AddCellPersist
    \/ CloseExpressionMatrix
    \/ AccessExpressionMatrix

SpecPersist == Init /\ [][NextPersist]_vars

(***************************************************************************)
(* Properties of addGene and addCell, checked under Spec.                  *)
(***************************************************************************)
Range(s) == {s[i] : i \in 1..Len(s)}

RECURSIVE SumOf(_, _)
\* The sum of f(x) = x^power over the counts of a set of <<gene, count>> pairs.
SumOf(pairs, power) ==
    IF pairs = {} THEN 0
    ELSE LET p == CHOOSE q \in pairs : TRUE
         IN (IF power = 1 THEN p[2] ELSE p[2] * p[2]) + SumOf(pairs \ {p}, power)

AddCellRejections == {"MissingCellName", "DuplicateName", "NegativeCount", "DuplicateGene"}

\* C1: after any sequence of addCell calls, rejected ones included, cells,
\* cellNames, cellMetaData, cellExpressionCounts and AllCells have the same size.
C1_SizesEqual ==
    /\ Len(cellNames) = Len(cells)
    /\ Len(cellMetaData) = Len(cells)
    /\ Len(cellExpressionCounts) = Len(cells)
    /\ Len(cellSets["AllCells"]) = Len(cells)

\* C2: an addCell that rejects its input leaves no cell name, meta data row,
\* usage count, expression row, Cell record or AllCells entry behind.
C2_RejectedLeavesNothing ==
    [][(last'.op = "addCell" /\ last'.result \in AddCellRejections)
        => /\ cellNames' = cellNames
           /\ cellMetaData' = cellMetaData
           /\ cellMetaDataNamesUsageCount' = cellMetaDataNamesUsageCount
           /\ cellExpressionCounts' = cellExpressionCounts
           /\ cells' = cells
           /\ cellSets' = cellSets]_vars

\* C3: a successful addCell returns the number of cells stored before the
\* call, and the cell's name, meta data row, expression row and Cell record
\* are stored at that index.
C3_ReturnsAssignedId ==
    (last.op = "addCell" /\ last.result = "ok") =>
        /\ last.ret = last.before
        /\ Len(cells) = last.ret + 1
        /\ Len(cellNames) > last.ret /\ cellNames[last.ret + 1] = last.name
        /\ Len(cellMetaData) > last.ret
        /\ cellMetaData[last.ret + 1][1] =
              <<Lookup(cellMetaDataNames, "CellName"),
                Lookup(cellMetaDataValues, last.name)>>
        /\ Len(cellExpressionCounts) > last.ret
        /\ {<<geneNames[e[1] + 1], e[2]>> :
               e \in Range(cellExpressionCounts[last.ret + 1])} = last.expr
        /\ cells[last.ret + 1] =
              [sum1 |-> SumOf(last.expr, 1), sum2 |-> SumOf(last.expr, 2)]

\* A second cell stored by the third call, after a call that stored none.
C3_Witness ==
    /\ last.op = "addCell" /\ last.result = "ok"
    /\ last.ret = 1 /\ calls = 3 /\ Len(geneNames) = 2 /\ last.expr # {}

\* C4: every stored cell's expression entries are sorted by GeneId with
\* distinct GeneIds and counts > 0, and sum1, sum2 are the sums of the
\* stored counts and of their squares.
C4_RowsSortedPositiveSummed ==
    \A c \in 1..Len(cells) :
        LET row == cellExpressionCounts[c] IN
        /\ \A i \in 2..Len(row) : row[i - 1][1] < row[i][1]
        /\ \A i \in 1..Len(row) : row[i][2] > 0
        /\ cells[c].sum1 = SumOf({<<i, row[i][2]>> : i \in 1..Len(row)}, 1)
        /\ cells[c].sum2 = SumOf({<<i, row[i][2]>> : i \in 1..Len(row)}, 2)

\* C6: addGene returns true and gives a new name the next dense GeneId,
\* returns false and changes nothing for a name already present; AllGenes is
\* 0..geneCount-1 ascending, and no gene's id ever changes.
C6_State ==
    /\ geneSets["AllGenes"] = [i \in 1..Len(geneNames) |-> i - 1]
    /\ \A i, j \in 1..Len(geneNames) : geneNames[i] = geneNames[j] => i = j
    /\ (last.op = "addGene" /\ last.had) =>
          /\ Len(geneNames) = last.before + 1
          /\ geneNames[last.before + 1] = last.name

C6_Step ==
    /\ \A i \in 1..Len(geneNames) :
          Len(geneNames') >= i /\ geneNames'[i] = geneNames[i]
    /\ last'.op = "addGene" =>
          /\ last'.had <=> (Lookup(geneNames, last'.name) = invalidStringId)
          /\ ~last'.had => Store' = Store

C6_AddGeneDense == []C6_State /\ [][C6_Step]_vars

\* addGene of a name already present, with two genes stored.
C6_Witness == last.op = "addGene" /\ ~last.had /\ Len(geneNames) = 2

(***************************************************************************)
(* Properties of the cell meta data operations, checked under SpecMeta.    *)
(***************************************************************************)
\* C5: the first meta data pair of every cell is ("CellName", the cell's
\* name as recorded in cellNames), after addCell and after setCellMetaData.
C5_FirstPairIsCellName ==
    \A c \in 1..Len(cellMetaData) :
        /\ Len(cellMetaData[c]) >= 1
        /\ cellMetaData[c][1] =
              <<Lookup(cellMetaDataNames, "CellName"),
                Lookup(cellMetaDataValues, cellNames[c])>>

\* C7: getCellMetaData after two setCellMetaData calls on the same cell and
\* name returns the second value; for a name the cell does not have it
\* returns the empty string and adds nothing to the string tables.
C7_GetAfterSet ==
    last.op = "getCellMetaData" =>
        /\ last.run >= 2 => {last.value} = last.expr
        /\ ~last.had => last.value = ""
        /\ Len(cellMetaDataNames) + Len(cellMetaDataValues) = last.before

\* A read after two writes of the same cell and name.
C7_Witness ==
    /\ last.op = "getCellMetaData" /\ last.run >= 2 /\ last.value = "y"

\* The usage count recorded for a meta data name, 0 when none is recorded.
UsageOf(names, usage, name) ==
    LET nameId == Lookup(names, name) IN
    IF nameId = invalidStringId \/ nameId >= Len(usage) THEN 0
    ELSE usage[nameId + 1]

\* C8: setCellMetaData on a name the cell has replaces only that pair's
\* value (row length and usage count unchanged); on a name the cell lacks it
\* appends exactly one pair and raises the name's usage count by 1; the
\* other cells' rows are unchanged.
C8_SetFrame ==
    [][last'.op = "setCellMetaData" =>
        LET c == last'.cell + 1
            row == cellMetaData[c]
            rowAfter == cellMetaData'[c]
            nameId == Lookup(cellMetaDataNames', last'.name)
            valueId == Lookup(cellMetaDataValues', last'.value)
            before == UsageOf(cellMetaDataNames, cellMetaDataNamesUsageCount,
                              last'.name)
            after == UsageOf(cellMetaDataNames', cellMetaDataNamesUsageCount',
                             last'.name)
        IN
        /\ Len(cellMetaData') = Len(cellMetaData)
        /\ \A d \in 1..Len(cellMetaData) : d # c => cellMetaData'[d] = cellMetaData[d]
        /\ \A i \in 1..Len(row) :
              /\ Len(rowAfter) >= i
              /\ rowAfter[i][1] = row[i][1]
              /\ row[i][1] # nameId => rowAfter[i] = row[i]
        /\ IF last'.had
           THEN Len(rowAfter) = Len(row) /\ after = before
           ELSE /\ rowAfter = Append(row, <<nameId, valueId>>)
                /\ after = before + 1]_vars

(***************************************************************************)
(* Properties of the set operations, checked under SpecSets.               *)
(***************************************************************************)
StrictlyAscending(s) == \A i \in 2..Len(s) : s[i - 1] < s[i]

\* The set made by the last call.
LastOutput ==
    IF last.op \in {"createGeneSetUnion", "createGeneSetIntersection",
                    "createGeneSetDifference"}
    THEN geneSets[last.name] ELSE cellSets[last.name]

\* The union, intersection and difference laws on two stored sets.
SetLaws(a, b) ==
    /\ set_union(a, b) = set_union(b, a)
    /\ set_intersection(a, b) = set_intersection(b, a)
    /\ set_union(set_difference(a, b), set_intersection(a, b)) = a

SetOperations ==
    {"createGeneSetFromRegex", "createGeneSetFromGeneNames", "createGeneSetUnion",
     "createGeneSetIntersection", "createGeneSetDifference",
     "createGeneSetUsingInformationContent", "createCellSetUsingMetaData",
     "createCellSetUnion", "createCellSetIntersection", "createCellSetDifference",
     "downsampleCellSet"}

\* C11: a set-creating operation whose output name exists or whose input set
\* is missing fails, reports the failure as a false return value, leaves
\* every named set unchanged and creates no set.
C11_SetFailureIsFalse ==
    [][last'.op \in SetOperations =>
        /\ last'.had => last'.result = "false"
        /\ last'.result # "ok" => (geneSets' = geneSets /\ cellSets' = cellSets)]_vars

\* C12: createCellSimilarityGraph with a graph name that exists or a cell set
\* name that does not exist reports the failure as a false return value, not
\* as a fatal error, and leaves the registry of named graphs unchanged.
C12_GraphFailureIsFalse ==
    [][(last'.op = "createCellSimilarityGraph" /\ last'.had)
        => (last'.result = "false" /\ graphs' = graphs)]_vars

\* Whether a is b with some of its elements left out.
RECURSIVE IsSubsequence(_, _)
IsSubsequence(a, b) ==
    IF a = <<>> THEN TRUE
    ELSE IF b = <<>> THEN FALSE
    ELSE IF a[1] = b[1] THEN IsSubsequence(Tail(a), Tail(b))
    ELSE IsSubsequence(a, Tail(b))

DownsampleDone(l) == l.op = "downsampleCellSet" /\ l.result = "ok"

C13_State ==
    DownsampleDone(last) =>
        /\ IsSubsequence(cellSets[last.name], last.inputs[1])
        /\ last.before = 10 => cellSets[last.name] = last.inputs[1]
        /\ last.before = 0 => cellSets[last.name] = <<>>

C13_Step ==
    (/\ DownsampleDone(last) /\ DownsampleDone(last')
     /\ last'.inputs = last.inputs
     /\ last'.before = last.before
     /\ last'.run = last.run)
    => cellSets'[last'.name] = cellSets[last.name]

\* C13: downsampleCellSet makes an order-preserving subset of the input cell
\* set that depends only on the input set, the probability and the seed:
\* the whole input for probability 1, the empty set for probability 0, and
\* equal sets for two calls with the same input, probability and seed.
C13_DownsampleDeterministic == []C13_State /\ [][C13_Step]_vars

\* A second down-sampling with the inputs of the first that keeps some cells
\* and drops others.
C13_Witness ==
    /\ DownsampleDone(last) /\ last.before = 5 /\ calls = 2
    /\ DOMAIN cellSets = {"AllCells", "A", "B"}
    /\ cellSets["A"] = cellSets["B"]
    /\ Len(cellSets["A"]) > 0 /\ Len(cellSets["A"]) < Len(last.inputs[1])

(***************************************************************************)
(* Properties of the exact similarity, checked under SpecSimilarity.       *)
(***************************************************************************)
\* The expression vector of a stored cell over all genes, absent genes 0.
DenseVector(cellId) ==
    LET row == cellExpressionCounts[cellId + 1] IN
    [g \in 1..Len(geneNames) |->
        IF \E i \in 1..Len(row) : row[i][1] = g - 1
        THEN row[CHOOSE i \in 1..Len(row) : row[i][1] = g - 1][2]
        ELSE 0]

\* The sum of x[g] * y[g] over the first n genes.
RECURSIVE DotTo(_, _, _)
DotTo(x, y, n) == IF n = 0 THEN 0 ELSE x[n] * y[n] + DotTo(x, y, n - 1)

Ones(n) == [g \in 1..n |-> 1]

\* Numerator and squared denominator of the Pearson correlation of x and y.
PearsonNumerator(x, y) ==
    LET n == Len(x) IN n * DotTo(x, y, n) - DotTo(x, Ones(n), n) * DotTo(y, Ones(n), n)
PearsonRadicand(x, y) ==
    LET n == Len(x)
        sx == DotTo(x, Ones(n), n)
        sy == DotTo(y, Ones(n), n)
    IN (n * DotTo(x, x, n) - sx * sx) * (n * DotTo(y, y, n) - sy * sy)

\* x and y are identical or positive multiples of one another.
PositiveMultiples(x, y) ==
    \E p \in 1..3, q \in 1..3 : \A g \in 1..Len(x) : p * x[g] = q * y[g]

\* The value numerator / sqrt(radicand) is 1.
IsOne(v) == v.kind = "finite" /\ v.numerator > 0 /\ v.numerator * v.numerator = v.radicand

\* What the similarity computed by the last call has to be, as far as both
\* statements of C14 agree.
C14_Pearson ==
    LET x == DenseVector(last.cell)
        y == DenseVector(last.run)
    IN /\ last.before = DotTo(x, y, Len(geneNames))
       /\ last.out.numerator = PearsonNumerator(x, y)
       /\ last.out.radicand = PearsonRadicand(x, y)
       /\ computeCellSimilarity(Store, last.run, last.cell).ret = last.out

\* C14 (as stated): computeCellSimilarity(a, b) is the Pearson correlation
\* over all genes, absent genes counted as zero, its scalar product the sum
\* over the genes present in both rows; it is symmetric; and it is 1 for any
\* two cells with identical or positively proportional expression vectors.
C14_SimilarityIsPearson ==
    last.op = "computeCellSimilarity" =>
        /\ C14_Pearson
        /\ PositiveMultiples(DenseVector(last.cell), DenseVector(last.run))
             => IsOne(last.out)

\* C14 (amended): as above, the similarity being 1 for identical or
\* positively proportional vectors whose expression is not constant over
\* all genes; for constant vectors, the empty one included, it is NaN.
C14_SimilarityIsPearsonWhereDefined ==
    last.op = "computeCellSimilarity" =>
        /\ C14_Pearson
        /\ PositiveMultiples(DenseVector(last.cell), DenseVector(last.run))
             => IF last.out.radicand > 0 THEN IsOne(last.out)
                ELSE last.out.kind = "NaN"

\* The similarity of two different cells with proportional, not identical,
\* expression over three genes.
C14_Witness ==
    /\ last.op = "computeCellSimilarity" /\ last.cell # last.run
    /\ Len(geneNames) = 3
    /\ DenseVector(last.cell) # DenseVector(last.run)
    /\ PositiveMultiples(DenseVector(last.cell), DenseVector(last.run))
    /\ IsOne(last.out)

C16_LshDeterministic ==
    [][(last.op = "Lsh" /\ last'.op = "Lsh" /\ last'.expr = last.expr
        /\ last'.inputs = last.inputs)
       => (last'.result = last.result /\ last'.out = last.out)]_vars

\* The entries of a stored cell whose gene is in the gene set.
EntriesIn(geneSet, globalCellId) ==
    {p \in Range(cellExpressionCounts[globalCellId + 1]) : p[1] \in Range(geneSet)}

\* A subset view made by the last call, of cells that are stored.
ViewMade ==
    /\ last.op = "ExpressionMatrixSubset" /\ last.result = "ok"
    /\ \A i \in 1..Len(last.expr.cellSet) : last.expr.cellSet[i] < Len(cells)

\* C17: the subset view of a sorted gene set G and a sorted cell set C has
\* one row for each cell of C, in the order of C; row i holds exactly the
\* entries of cell C[i] whose gene is in G, each once, with the position of
\* the gene in G in place of the gene id and the count as stored, in strictly
\* ascending order of the local gene id.
C17_SubsetRows ==
    ViewMade =>
        LET view == last.expr IN
        /\ Len(view.cellExpressionCounts) = Len(view.cellSet)
        /\ \A i \in 1..Len(view.cellSet) :
            LET row == view.cellExpressionCounts[i] IN
            /\ \A k \in 1..Len(row) : row[k][1] \in 0..(Len(view.geneSet) - 1)
            /\ {<<view.geneSet[row[k][1] + 1], row[k][2]>> : k \in 1..Len(row)}
                   = EntriesIn(view.geneSet, view.cellSet[i])
            /\ Len(row) = Cardinality(EntriesIn(view.geneSet, view.cellSet[i]))
            /\ \A k \in 2..Len(row) : row[k - 1][1] < row[k][1]

\* A view of two cells over the genes 1 and 2 of three: an entry of gene 0
\* is left out and the entries kept have local gene ids 0 and 1.
C17_Witness ==
    /\ ViewMade
    /\ last.expr.geneSet = <<1, 2>> /\ last.expr.cellSet = <<0, 1>>
    /\ Len(cellExpressionCounts[1]) > Len(last.expr.cellExpressionCounts[1])
    /\ Len(last.expr.cellExpressionCounts[2]) = 2

\* C18: after its construction the subset view holds, for every cell of its
\* cell set, sum1 and sum2: the sums of the counts and of their squares over
\* the entries of the row of the cell.
C18_SubsetSums ==
    ViewMade =>
        LET view == last.expr IN
        /\ Len(view.sums) = Len(view.cellSet)
        /\ \A c \in 1..Len(view.cellSet) :
            /\ view.sums[c].sum1 = SumOfRow(view.cellExpressionCounts[c], 1, 1)
            /\ view.sums[c].sum2 = SumOfRow(view.cellExpressionCounts[c], 2, 1)

(***************************************************************************)
(* Properties of SimilarPairs, checked under SpecPairs.                    *)
(***************************************************************************)
\* The cells that qualify as neighbours of a cell: the others whose exact
\* similarity to it is a number and at least the threshold.
Candidates(cellId, similarityThreshold) ==
    {other \in (0..(Len(cells) - 1)) \ {cellId} :
        AtLeastThreshold(computeCellSimilarity(Store, cellId, other).ret, similarityThreshold)}

\* C19: the list stored for a cell has at most k entries, each a candidate
\* with its similarity, which is at least the threshold; the entries are in
\* order of decreasing similarity; the list holds k entries when more than k
\* cells qualify, all candidates when at most k do, and no candidate left out
\* is more similar than one stored.
C19_TopK ==
    last.op = "findSimilarPairs0" =>
        \A cellId \in 0..(Len(cells) - 1) :
            LET list == last.out[cellId + 1]
                k == last.run
                candidates == Candidates(cellId, last.before)
                stored == {list[i].cell : i \in 1..Len(list)}
            IN /\ Len(list) <= k
               /\ Len(list) = Cardinality(stored)
               /\ stored \subseteq candidates
               /\ \A i \in 1..Len(list) :
                    /\ list[i].similarity = computeCellSimilarity(Store, cellId, list[i].cell).ret
                    /\ AtLeastThreshold(list[i].similarity, last.before)
               /\ \A i \in 2..Len(list) :
                    ~GreaterSimilarity(list[i].similarity, list[i - 1].similarity)
               /\ Len(list) = IF Cardinality(candidates) > k THEN k ELSE Cardinality(candidates)
               /\ \A other \in candidates \ stored : \A i \in 1..Len(list) :
                    ~GreaterSimilarity(computeCellSimilarity(Store, cellId, other).ret,
                                       list[i].similarity)

\* With k = 2 a cell has three candidates of three different similarities
\* above the threshold of 0.5, and the two most similar are stored.
C19_Witness ==
    /\ last.op = "findSimilarPairs0" /\ last.run = 2 /\ last.before = 5
    /\ Len(cells) = 4
    /\ Cardinality(Candidates(0, 5)) = 3
    /\ \A a \in Candidates(0, 5), b \in Candidates(0, 5) :
        a # b => \/ GreaterSimilarity(computeCellSimilarity(Store, 0, a).ret,
                                     computeCellSimilarity(Store, 0, b).ret)
                 \/ GreaterSimilarity(computeCellSimilarity(Store, 0, b).ret,
                                     computeCellSimilarity(Store, 0, a).ret)
    /\ Len(last.out[1]) = 2
    /\ GreaterSimilarity(last.out[1][1].similarity, last.out[1][2].similarity)

(***************************************************************************)
(* Properties of the files, checked under SpecVector and SpecPersist.      *)
(***************************************************************************)
\* accessExisting after close gives a vector of the size and with the
\* objects, in order, that the vector had when it was closed.
VectorRoundTrip ==
    last.op = "accessExisting" =>
        /\ last.result = "ok" /\ last.had
        /\ vector.isOpen
        /\ size(files[vector.fileName]) = Len(last.out)
        /\ Elements(files[vector.fileName]) = last.out

\* A vector that grew past its capacity, with different objects, is closed
\* and accessed again.
VectorRoundTripWitness ==
    /\ last.op = "accessExisting" /\ last.result = "ok"
    /\ Len(last.out) = 4 /\ last.out[1] # last.out[4] /\ last.out[2] = 0
    /\ files[vector.fileName].header.pageCount = 2

\* push_back and resize keep the objects below the old and the new size, and
\* push_back puts its object last.
VectorWritesKeep ==
    [][(vector.isOpen /\ last'.op \in {"push_back", "resize"}) =>
        LET old == Elements(files[vector.fileName])
            new == Elements(files'[vector.fileName])
        IN /\ \A i \in 1..Len(old) : i <= Len(new) => new[i] = old[i]
           /\ \A i \in (Len(old) + 1)..Len(new) :
                new[i] = 0 \/ (last'.op = "push_back" /\ new[i] \in Objects)
           /\ last'.op = "push_back" => Len(new) = Len(old) + 1]_vars

\* C20: a store constructed again from its directory after it was closed has
\* the gene ids, the cell ids, the meta data and the expression rows it had
\* when it was closed (its vectors being read back as VectorRoundTrip says).
C20_StoreRoundTrip ==
    last.op = "ExpressionMatrix" =>
        /\ last.result = "ok"
        /\ geneNames = last.out.geneNames
        /\ cellNames = last.out.cellNames
        /\ cells = last.out.cells
        /\ cellMetaData = last.out.cellMetaData
        /\ cellMetaDataNames = last.out.cellMetaDataNames
        /\ cellMetaDataValues = last.out.cellMetaDataValues
        /\ cellMetaDataNamesUsageCount = last.out.cellMetaDataNamesUsageCount
        /\ cellExpressionCounts = last.out.cellExpressionCounts
        /\ cellSets = last.out.cellSets
        /\ geneSets = last.out.geneSets

C22_FailedCreateRemovesFile ==
    [][(last'.op = "createNew" /\ last'.result = "runtime_error") =>
        /\ ~vector'.isOpen
        /\ VectorFileName \notin DOMAIN files => VectorFileName \notin DOMAIN files']_vars

\* What the code does keep: after a failed createNew the vector is not open,
\* and no later accessExisting opens the file that was left.
C22_FailedCreateNotOpen ==
    [][(last'.op = "createNew" /\ last'.result = "runtime_error") =>
        /\ ~vector'.isOpen
        /\ ~accessExistingChecks(files'[VectorFileName])]_vars

(***************************************************************************)
(* Properties of MemoryMapped::VectorOfVectors.                            *)
(***************************************************************************)
\* The rows of the VectorOfVectors, in order.
VovRows(v) == [i \in 1..vovSize(v) |-> vovRow(v, i - 1)]

\* C23: after createNew and any appendVector and append calls, the toc of a
\* VectorOfVectors has one entry more than there are rows (appendVector adds
\* one entry, append none), its first entry is 0, it never decreases, and its
\* last entry is the number of elements of data; appendVector adds an empty
\* row and changes no other, append adds its element to the last row and
\* changes no other. Checked under SpecAppend.
C23_TocOfRows ==
    /\ [](vectorOfVectors.isOpen =>
            LET toc == Elements(VovFiles.toc) IN
            /\ Len(toc) >= 1 /\ toc[1] = 0
            /\ \A i \in 1..(Len(toc) - 1) : toc[i] <= toc[i + 1]
            /\ toc[Len(toc)] = size(VovFiles.data))
    /\ [][LET rows == VovRows(VovFiles)
              rows2 == [i \in 1..(size(files'[TocFileName]) - 1) |->
                            vovRow([toc |-> files'[TocFileName], data |-> files'[DataFileName]], i - 1)]
          IN /\ (last'.op = "appendVector" /\ vectorOfVectors.isOpen) => rows2 = Append(rows, <<>>)
             /\ (last'.op = "append" /\ last'.result = "ok" /\ vectorOfVectors.isOpen) =>
                    /\ Len(rows2) = Len(rows)
                    /\ \A i \in 1..(Len(rows) - 1) : rows2[i] = rows[i]
                    /\ \E t \in Objects : rows2[Len(rows)] = Append(rows[Len(rows)], t)]_vars

\* Three rows, the toc and the data both grown past the capacity of three
\* objects, the second row empty and the last row of two elements.
C23_Witness ==
    /\ vectorOfVectors.isOpen
    /\ VovFiles.toc.header.pageCount = 2 /\ VovFiles.data.header.pageCount = 2
    /\ VovRows(VovFiles) = <<(<<1, 2>>), <<>>, (<<2, 1>>)>>
    /\ last.op = "append"

\* The number of times x occurs in the sequence s.
Occurrences(s, x) == Cardinality({k \in 1..Len(s) : s[k] = x})

\* After a build in two passes whose endPass2 returned: there are n rows, row
\* i holds the values stored with index i, and data holds sum of c_i objects.
TwoPassRowsAsStored ==
    (last.op = "endPass2" /\ last.result = "ok") =>
        LET rows == VovRows(VovFiles) IN
        /\ Len(rows) = Len(vectorOfVectors.counts)
        /\ \A i \in 1..Len(rows) :
            /\ Len(rows[i]) = vectorOfVectors.counts[i]
            /\ \A x \in Objects :
                Occurrences(rows[i], x) = Occurrences(vectorOfVectors.stored[i], x)
        /\ size(VovFiles.data) = SumOfCounts(vectorOfVectors.counts)

\* No store of a build in two passes writes outside the data vector.
TwoPassStoresInside == ~vectorOfVectors.outside

\* beginPass2 and the stores of a build in two passes return.
TwoPassCallsReturn == last.op \in {"beginPass2", "store"} => last.result = "ok"

\* After a build in two passes the toc is that of the counts.
TwoPassToc ==
    (last.op = "endPass2" /\ last.result = "ok") =>
        /\ vovSize(VovFiles) = Len(vectorOfVectors.counts)
        /\ \A i \in 1..Len(vectorOfVectors.counts) :
            VovFiles.toc.data[i + 1] - VovFiles.toc.data[i] = vectorOfVectors.counts[i]

\* C24: a VectorOfVectors built by beginPass1(n), incrementCount c_i times
\* for each row i, beginPass2, store(i, value) c_i times for each row i and
\* endPass2 has n rows, row i holds exactly the values stored with index i,
\* data has the sum of the c_i as its size, no store writes outside data,
\* and the calls return, also when every c_i is 0. Checked under SpecTwoPass.
C24_TwoPassBuild ==
    /\ TwoPassCallsReturn
    /\ TwoPassStoresInside
    /\ TwoPassRowsAsStored

(***************************************************************************)
(* Properties of BitSet, checked under SpecBitSet.                         *)
(***************************************************************************)
\* The bit positions of a BitSet.
BitsOf(bitSet) == 0..(64 * Len(bitSet) - 1)

\* a comes before b in the lexicographic order of their bit strings, bit 0
\* first: at the first bit where they differ, b has the one.
BitStringLess(a, b) ==
    \E i \in BitsOf(a) :
        /\ ~get(a, i) /\ get(b, i)
        /\ \A j \in 0..(i - 1) : get(a, j) = get(b, j)

\* C25: bit i of a BitSet is bit 63 - (i mod 64) of the word i div 64;
\* operator< on two BitSets of the same number of words is the lexicographic
\* order of their bit strings, bit 0 first; set(i) makes get(i) true and
\* changes no other bit of any BitSet.
C25_BitSetLayoutAndOrder ==
    /\ [](\A k \in 1..Len(signatures) : \A i \in BitsOf(signatures[k]) :
            get(signatures[k], i) <=> (63 - (i % 64)) \in signatures[k][(i \div 64) + 1])
    /\ [](signatures # <<>> =>
            /\ BitSetLess(signatures[1], signatures[2]) <=> BitStringLess(signatures[1], signatures[2])
            /\ BitSetLess(signatures[2], signatures[1]) <=> BitStringLess(signatures[2], signatures[1]))
    /\ [][last'.op = "set" =>
            /\ get(signatures'[last'.cell], last'.run)
            /\ \A k \in 1..Len(signatures) : \A i \in BitsOf(signatures[k]) :
                (k # last'.cell \/ i # last'.run) =>
                    get(signatures'[k], i) = get(signatures[k], i)]_vars

\* Two BitSets of two words were compared: the first has bit 64 only, the
\* second bit 63 only, and the first is the lesser.
C25_Witness ==
    /\ last.op = "operator<" /\ last.out = TRUE
    /\ signatures = <<(<<{}, {63}>>), (<<{0}, {}>>)>>

(***************************************************************************)
(* Properties of the usage counts of meta data names, under SpecMeta.      *)
(***************************************************************************)
\* The number of cells whose meta data has a pair with the given name id.
CellsWithName(nameId) ==
    Cardinality({c \in 1..Len(cellMetaData) :
        \E k \in 1..Len(cellMetaData[c]) : cellMetaData[c][k][1] = nameId})

\* cellMetaDataNamesUsageCount has an entry for each meta data name.
UsageCountForEachName == Len(cellMetaDataNamesUsageCount) = Len(cellMetaDataNames)

\* The usage count of each name is the number of cells with a pair of it.
UsageCountsOfCells ==
    \A n \in 1..Len(cellMetaDataNamesUsageCount) :
        cellMetaDataNamesUsageCount[n] = CellsWithName(n - 1)

\* No setCellMetaData and no storeClusterId fails the assertion of
\* incrementCellMetaDataNameUsageCount.
NoAssertionFails ==
    last.op \in {"setCellMetaData", "storeClusterId"} => last.result # "AssertionFailed"

\* C26: after any addCell, setCellMetaData and storeClusterId calls (a
\* storeClusterId on a graph without vertices and with a new meta data name
\* included), cellMetaDataNamesUsageCount has the size of cellMetaDataNames,
\* its entry for a name is the number of cells with a pair of that name, and
\* the assertion of incrementCellMetaDataNameUsageCount does not fail.
C26_UsageCounts ==
    /\ UsageCountForEachName
    /\ UsageCountsOfCells
    /\ NoAssertionFails

(***************************************************************************)
(* Properties of the AllCells set, checked under SpecCellSets.             *)
(***************************************************************************)
\* C27: after any addCell calls, creations of cell sets and requests to
\* remove a cell set of any name, the cell set AllCells exists and holds
\* exactly the cell ids 0 .. cellCount - 1 in ascending order.
C27_AllCellsKept ==
    /\ "AllCells" \in DOMAIN cellSets
    /\ cellSets["AllCells"] = [i \in 1..Len(cellMetaData) |-> i - 1]

\* Where AllCells exists it holds the cell ids 0 .. cellCount - 1 in order.
AllCellsHoldsAllCells ==
    "AllCells" \in DOMAIN cellSets =>
        cellSets["AllCells"] = [i \in 1..Len(cellMetaData) |-> i - 1]

\* A request to remove a cell set other than AllCells leaves AllCells.
OtherRemovalsKeepAllCells ==
    [][(last'.op = "removeCellSet" /\ last'.name # "AllCells" /\ "AllCells" \in DOMAIN cellSets)
        => "AllCells" \in DOMAIN cellSets']_vars

(***************************************************************************)
(* Properties of Lsh::generateLshVectors, checked under SpecLsh.           *)
(***************************************************************************)
\* An LSH object was built of a view with at least one gene.
LshBuilt == last.op = "Lsh" /\ Len(last.expr.geneSet) >= 1

RECURSIVE SumOfSquares(_, _, _)
\* The sum of x^2 over the components of LSH vector i for the genes g, g + 1, ...
SumOfSquares(lshVectors, i, g) ==
    IF g > Len(lshVectors) THEN 0
    ELSE lshVectors[g][i].x * lshVectors[g][i].x + SumOfSquares(lshVectors, i, g + 1)

\* The call wrote no element of lshVectors at a gene index outside it.
LshVectorsIndexedInside == LshBuilt => last.result # "crash"

\* Every component of every LSH vector is a draw of its own: that of gene g
\* and vector j is draw g * L + j.
LshVectorsAllDrawn ==
    (LshBuilt /\ last.result # "crash") =>
        LET v == last.out.lshVectors
            L == last.inputs[1]
        IN /\ Len(v) = Len(last.expr.geneSet)
           /\ \A g \in 1..Len(v) : \A j \in 1..L :
                v[g][j].x = normalGenerator(last.inputs[2], (g - 1) * L + (j - 1))

\* Every LSH vector has norm 1 over the genes: the sum of the squares that
\* its components are divided by is that of its components.
LshVectorsUnitNorm ==
    (LshBuilt /\ last.result # "crash") =>
        LET v == last.out.lshVectors
        IN \A g \in 1..Len(v) : \A j \in 1..last.inputs[1] :
                v[g][j].norm2 = SumOfSquares(v, j, 1)

\* C28: for every m = |G| >= 1 and L >= 1, with m < L, m = L and m > L,
\* generateLshVectors assigns a draw of its own to every component (g, j)
\* with g < m and j < L, never indexes lshVectors at a gene index >= m, and
\* leaves each LSH vector with norm 1 over the m genes.
C28_LshVectorsOverAllGenes ==
    /\ LshVectorsIndexedInside
    /\ LshVectorsAllDrawn
    /\ LshVectorsUnitNorm

\* With as many genes as LSH vectors the three properties hold.
LshVectorsSquare ==
    (LshBuilt /\ Len(last.expr.geneSet) = last.inputs[1]) => C28_LshVectorsOverAllGenes

\* C29: reserve(c) with c >= size(), and reserve(), change the capacity of a
\* vector only: its size and its objects are afterwards what they were.
C29_ReserveKeepsObjects ==
    [][(vector.isOpen /\ last'.op = "reserve") =>
        Elements(files'[vector.fileName]) = Elements(files[vector.fileName])]_vars

\* After reserve(c) the capacity is at least c.
ReserveGivesCapacity ==
    [][(vector.isOpen /\ last'.op = "reserve") =>
        files'[vector.fileName].header.capacity >= last'.run]_vars

\* reserve(c) with c the capacity the vector has changes nothing.
ReserveOfCapacityKeeps ==
    [][(vector.isOpen /\ last'.op = "reserve"
            /\ last'.run = files[vector.fileName].header.capacity) =>
        files' = files]_vars

(***************************************************************************)
(* Properties of cellIdFromString and geneIdFromString, under SpecLookup.  *)
(***************************************************************************)
\* What a lookup of s is to return, for a table of names and a count of
\* ids: the id of the name s if there is one, else the integer s stands for
\* if that is below the count, else the invalid id.
IdOfNameOrInteger(names, count, s) ==
    IF \E i \in 1..Len(names) : names[i] = s
    THEN (CHOOSE i \in 1..Len(names) : names[i] = s) - 1
    ELSE IF s \in {"0", "1", "7", "01"} /\ lexical_cast(s).value < count
    THEN lexical_cast(s).value
    ELSE -1

\* C30: cellIdFromString(s) returns the id of the cell named s whenever there
\* is one (so the name of a stored cell gives that cell), the integer i when
\* s is the decimal form of an i < cellCount, and the invalid id otherwise;
\* geneIdFromString does the same for gene names and gene ids.
C30_IdFromString ==
    /\ last.op = "cellIdFromString" =>
        last.ret = IdOfNameOrInteger(cellNames, Len(cellMetaData), last.name)
    /\ last.op = "geneIdFromString" =>
        last.ret = IdOfNameOrInteger(geneNames, Len(geneNames), last.name)

\* Where no name is the decimal form of an id other than its own, the
\* lookups return what C30 says.
IdFromStringWithoutClash ==
    LET NoClash(names) ==
            \A i \in 1..Len(names) :
                (~lexical_cast(names[i]).bad_lexical_cast /\ lexical_cast(names[i]).value < Len(names))
                    => lexical_cast(names[i]).value = i - 1
    IN (NoClash(cellNames) /\ NoClash(geneNames)) => C30_IdFromString

====
